---------------------------- MODULE Spec2Model ----------------------------
(***************************************************************************)
(* Market-making bot (src/src/main.rs and src/src/modules): five tasks     *)
(* around one mutex-guarded AppState and two bounded mpsc channels.        *)
(*                                                                         *)
(* Units.  A price is an integer number of mills (1/1000): 0.40 is 400,    *)
(* 0.401 is 401.  A quantity is an integer number of tenths of a token:    *)
(* 500.0 is 5000.  The quote arithmetic below is exact rational arithmetic *)
(* on these integers; on every price of the mill grid 0..1000 it gives the *)
(* same cent as the f64 evaluation of trading.rs:173-178; the bucket of    *)
(* trading.rs:107,131 follows the f64 evaluation on every input used.      *)
(***************************************************************************)
EXTENDS Integers, Sequences, FiniteSets, TLC

-----------------------------------------------------------------------------
(* Bounds of the model *)

\* capacity of the market channel in the model (1024 in main.rs:28)
MarketChannelCap == 1
\* capacity of the command channel in the model (1024 in main.rs:29)
CommandChannelCap == 2
\* websocket text frames the market feed receives in one run
MaxMarketMsgs == 2
\* websocket text frames the user feed receives in one run
MaxUserMsgs == 1
\* websocket text frames the user feed receives in one run of LifecycleSpec
MaxLifecycleUserMsgs == 2
\* commands put on the command channel from outside the tasks in one run
MaxCommands == 3
\* order ids the exchange hands out in one run
MaxOrders == 2
\* connection losses (connect error, close, read error) per feed in one run
MaxConnLosses == 1

-----------------------------------------------------------------------------
(* Program constants *)

\* trading.rs:39  BASE_ORDER_SIZE = 500.0, in tenths
BASE_ORDER_SIZE == 5000
\* trading.rs:40  EDGE_PCT = 0.02, in percent
EDGE_PCT == 2
\* main.rs:199  amount = "500" (USDC), in tenths
SPLIT_AMOUNT == 5000
\* websocket.rs:83 / user_ws.rs:66  backoff cap, seconds
BACKOFF_CAP == 30

\* main.rs:129 the configured token (ASSETS_IDS)
YES == "YES"
\* trading.rs:219 the token id hard-coded in the first Create: the complement
NO == "NO"
\* an asset id of another market, as it appears in inbound messages
FOREIGN == "FOREIGN"

\* Option::None of an order id (types.rs:32)
NoId == "none"
OrderIds == {"o1", "o2", "o3", "o4"}
\* the id the exchange hands out as its n-th receipt
OidOf(n) == CASE n = 1 -> "o1" [] n = 2 -> "o2" [] n = 3 -> "o3" [] OTHER -> "o4"

\* Option::None of a bucket (trading.rs:139); buckets are >= 0
NoBucket == -1

-----------------------------------------------------------------------------
(* HashMap as a function with a finite domain *)

EmptyMap == [k \in {} |-> 0]
MapInsert(m, key, v) == [k \in (DOMAIN m) \cup {key} |-> IF k = key THEN v ELSE m[k]]
MapRemove(m, key) == [k \in (DOMAIN m) \ {key} |-> m[k]]
\* HashMap::get(..).copied().unwrap_or(d)
MapGetOr(m, key, d) == IF key \in DOMAIN m THEN m[key] ELSE d

Max(a, b) == IF a >= b THEN a ELSE b
Min(a, b) == IF a <= b THEN a ELSE b
Abs(a) == IF a < 0 THEN -a ELSE a
\* ceil and floor of n/d for d > 0
CeilDiv(n, d) == -((-n) \div d)
FloorDiv(n, d) == n \div d

-----------------------------------------------------------------------------
(* Inbound text: decimal strings and JSON frames *)

\* A decimal string: "0.42" (form "num"), ".42" (form "dot", no leading
\* zero), or text that is no number (form "bad").
Num(n) == [form |-> "num", val |-> n]
Dot(n) == [form |-> "dot", val |-> n]
BadStr == [form |-> "bad", val |-> 0]

\* str::parse::<f64>() / parse::<i64>(): TRUE iff the text is a number.
\* Rust's f64 grammar accepts a missing integer part, so ".42" parses.
ParseOk(s) == s.form \in {"num", "dot"}
ParseVal(s) == s.val
\* the closure `parse` of push_updates_from_msg: prefix "0" to a leading '.'
BookParseOk(s) == ParseOk(IF s.form = "dot" THEN Num(s.val) ELSE s)
BookParseVal(s) == ParseVal(IF s.form = "dot" THEN Num(s.val) ELSE s)

MkUpdate(a, bb, ba, ts) == [asset_id |-> a, best_bid |-> bb, best_ask |-> ba, ts |-> ts]
NoUpdate == MkUpdate("", 0, 0, 0)

\* market-channel JSON objects (types.rs:92-145)
Book(a, bids, asks, ts) ==
    [event |-> "book", asset_id |-> a, bids |-> bids, asks |-> asks, timestamp |-> ts]
Change(a, bb, ba) == [asset_id |-> a, best_bid |-> bb, best_ask |-> ba]
PriceChangeMsg(changes, ts) ==
    [event |-> "price_change", price_changes |-> changes, timestamp |-> ts]
TickSizeMsg == [event |-> "tick_size_change"]
\* a JSON object that matches no variant of MarketWebSocketMessages
UnknownMsg == [event |-> "unknown"]

\* a text frame: one object, an array of objects, or text that is not JSON
Single(m) == [shape |-> "single", msgs |-> <<m>>]
Batch(ms) == [shape |-> "array", msgs |-> ms]
Garbage == [shape |-> "garbage", msgs |-> <<>>]

\* push_updates_from_msg: the updates one message contributes
RECURSIVE ChangesToUpdates(_, _)
ChangesToUpdates(changes, ts) ==
    IF changes = <<>> THEN <<>>
    ELSE LET c == Head(changes)
             bb == IF ParseOk(c.best_bid) THEN ParseVal(c.best_bid) ELSE 0
             ba == IF ParseOk(c.best_ask) THEN ParseVal(c.best_ask) ELSE 1000
             t  == IF ParseOk(ts) THEN ParseVal(ts) ELSE 0
         IN <<MkUpdate(c.asset_id, bb, ba, t)>> \o ChangesToUpdates(Tail(changes), ts)

push_updates_from_msg(msg) ==
    IF msg.event = "book" THEN
        LET bb == IF msg.bids # <<>> /\ BookParseOk(msg.bids[Len(msg.bids)])
                  THEN BookParseVal(msg.bids[Len(msg.bids)]) ELSE 0
            ba == IF msg.asks # <<>> /\ BookParseOk(msg.asks[Len(msg.asks)])
                  THEN BookParseVal(msg.asks[Len(msg.asks)]) ELSE 1000
            t  == IF ParseOk(msg.timestamp) THEN ParseVal(msg.timestamp) ELSE 0
        IN <<MkUpdate(msg.asset_id, bb, ba, t)>>
    ELSE IF msg.event = "price_change" THEN
        ChangesToUpdates(msg.price_changes, msg.timestamp)
    ELSE <<>>

RECURSIVE UpdatesOf(_)
UpdatesOf(msgs) ==
    IF msgs = <<>> THEN <<>>
    ELSE push_updates_from_msg(Head(msgs)) \o UpdatesOf(Tail(msgs))

\* parse_update: every serde attempt fails on text that is not JSON and on an
\* object (alone or in an array) that matches no variant
parse_update(frame) ==
    IF frame.shape = "garbage" THEN <<>>
    ELSE IF \E i \in 1..Len(frame.msgs) : frame.msgs[i].event = "unknown" THEN <<>>
    ELSE UpdatesOf(frame.msgs)

\* the filter of websocket.rs:56
RECURSIVE ForTarget(_, _)
ForTarget(us, target) ==
    IF us = <<>> THEN <<>>
    ELSE IF Head(us).asset_id = target
         THEN <<Head(us)>> \o ForTarget(Tail(us), target)
         ELSE ForTarget(Tail(us), target)

\* The text frames the market websocket delivers in the model.
MarketFrames ==
    { Single(Book(YES, <<Num(390), Dot(400)>>, <<Num(610), Dot(600)>>, Num(1))),
      Single(Book(YES, <<Num(401)>>, <<Num(599)>>, Num(2))),
      Batch(<<PriceChangeMsg(<<Change(YES, Num(410), Num(620)),
                               Change(FOREIGN, Num(100), Num(900))>>, Num(3))>>),
      Single(Book(YES, <<Num(990)>>, <<Num(995)>>, Num(4))),
      Single(Book(YES, <<Num(600)>>, <<Num(400)>>, Num(5))),
      Single(Book(YES, <<>>, <<BadStr>>, BadStr)),
      Single(Book(YES, <<Num(399)>>, <<Num(401)>>, Num(6))),
      Single(Book(FOREIGN, <<Num(400)>>, <<Num(600)>>, Num(7))),
      Single(TickSizeMsg),
      Batch(<<Book(YES, <<Num(400)>>, <<Num(600)>>, Num(8)), UnknownMsg>>),
      Garbage }

\* user-channel JSON objects (types.rs:159-197), the fields the handler reads
Trade(a, status, side, size, ts, oid) ==
    [asset_id |-> a, status |-> status, side |-> side, size |-> size,
     timestamp |-> ts, taker_order_id |-> oid]
OrderEv(a, type, id, side, price, osize) ==
    [asset_id |-> a, msg_type |-> type, id |-> id, side |-> side, price |-> price,
     original_size |-> osize]
\* A user text frame.  UserWebSocketMessages (types.rs:217-225) derives
\* Deserialize with no tag attribute, so serde reads the externally tagged
\* form {"TradeMessage": {..}} / {"OrderMessage": {..}}: `tag` is that key.
\* tag "flat" is an object with no variant key ({"event_type": "trade", ..}),
\* tag "garbage" is text that is not JSON; both fail from_str.
TradeFrame(t) == [tag |-> "TradeMessage", body |-> t]
OrderFrame(o) == [tag |-> "OrderMessage", body |-> o]
FlatFrame(t) == [tag |-> "flat", body |-> t]
GarbageFrame == [tag |-> "garbage", body |-> [asset_id |-> ""]]
\* no frame handled yet
NoFrame == [tag |-> "none", body |-> [asset_id |-> ""]]

\* The text frames the user websocket delivers in the model.
UserFrames ==
    { TradeFrame(Trade(YES, "MATCHED", "BUY", Num(100), Num(1), "o1")),
      TradeFrame(Trade(YES, "MATCHED", "SELL", Num(100), Num(2), "o1")),
      TradeFrame(Trade(YES, "CONFIRMED", "BUY", Num(100), Num(3), "o1")),
      TradeFrame(Trade(FOREIGN, "MATCHED", "BUY", Num(100), Num(4), "o2")),
      TradeFrame(Trade(NO, "MATCHED", "SELL", Num(BASE_ORDER_SIZE), Num(7), "o2")),
      TradeFrame(Trade(YES, "MATCHED", "BUY", BadStr, Num(5), "o1")),
      TradeFrame(Trade(YES, "MATCHED", "BUY", Num(100), BadStr, "o1")),
      OrderFrame(OrderEv(YES, "PLACEMENT", "o1", "SELL", Num(610), Num(5000))),
      OrderFrame(OrderEv(YES, "UPDATE", "o1", "SELL", Num(620), Num(4000))),
      OrderFrame(OrderEv(YES, "CANCELLATION", "o1", "SELL", Num(610), Num(5000))),
      OrderFrame(OrderEv(FOREIGN, "PLACEMENT", "o2", "BUY", Num(300), Num(10))),
      OrderFrame(OrderEv(YES, "TRADE", "o1", "SELL", Num(610), Num(5000))),
      FlatFrame(Trade(YES, "MATCHED", "BUY", Num(100), Num(6), "o1")),
      GarbageFrame }

\* str::eq_ignore_ascii_case(SIDE_BUY): anything else is a Sell
SideOf(txt) == IF txt \in {"BUY", "buy", "Buy"} THEN "Buy" ELSE "Sell"

MkOrder(id, a, side, price, size) ==
    [id |-> id, asset_id |-> a, side |-> side, price |-> price, size |-> size]

\* BotCommand (types.rs:50-62)
Create(o) == [type |-> "Create", order |-> o]
Cancel(id) == [type |-> "Cancel", id |-> id]
CancelAll == [type |-> "CancelAll"]
OrderFilled(id, token, side, price, size) ==
    [type |-> "OrderFilled", id |-> id, token_id |-> token, side |-> side,
     price |-> price, size |-> size]
Shutdown == [type |-> "Shutdown"]
NoCmd == [type |-> "none"]

-----------------------------------------------------------------------------
(* On-disk snapshot (persistence.rs) *)

\* AppState::default() (types.rs:64-79), the fields the tasks use
DefaultState ==
    [my_open_orders |-> EmptyMap, last_prices |-> EmptyMap, inventory |-> EmptyMap,
     last_mid_bucket |-> EmptyMap, risk_paused |-> FALSE, shutting_down |-> FALSE]

\* state.json is absent
NoSnapshot == [present |-> FALSE, state |-> DefaultState]
\* state.json as a run that saved at its Ctrl-C left it: both flags set
OldSnapshot ==
    [present |-> TRUE,
     state |-> [DefaultState EXCEPT !.inventory = [t \in {YES, NO} |-> IF t = YES THEN 700 ELSE 300],
                                    !.risk_paused = TRUE, !.shutting_down = TRUE]]
\* state.json of a run that had sold 70 tokens more than it held
ShortSnapshot ==
    [present |-> TRUE,
     state |-> [DefaultState EXCEPT !.inventory = [t \in {YES, NO} |-> IF t = YES THEN -700 ELSE 300],
                                    !.risk_paused = TRUE, !.shutting_down = TRUE]]
Snapshots == {NoSnapshot, OldSnapshot, ShortSnapshot}

\* load_state().unwrap_or_default()
load_state(d) == IF d.present THEN d.state ELSE DefaultState
\* save_state: the JSON is built and dropped, the write is commented out
save_state(d, st) == d

\* what fetch_current_positions (data.rs:10-57) can return: Ok with the
\* position of the configured token, in tenths (the map always holds that
\* token: data.rs:21 enters it with 0.0 before the HTTP call, so a failed
\* call or an empty wallet reads as 0); Err (the body does not decode)
RestOk(q) == [ok |-> TRUE, positions |-> MapInsert(EmptyMap, YES, q)]
RestErr == [ok |-> FALSE, positions |-> EmptyMap]
RestReplies == {RestOk(0), RestOk(1000), RestErr}

-----------------------------------------------------------------------------
VARIABLES
    disk,               \* state.json
    \* AppState (types.rs:64-79)
    my_open_orders,     \* order id -> Order
    last_prices,        \* asset id -> <<best_bid, best_ask, ts>>
    inventory,          \* token id -> quantity
    last_mid_bucket,    \* asset id -> bucket
    risk_paused,
    shutting_down,
    mutex,              \* the task holding the AppState mutex across a step, or "free"
    \* channels (main.rs:254,261)
    market_q,
    cmd_q,
    \* main
    m_pc,
    \* market feed (websocket.rs)
    f_pc, f_backoff, f_out, f_msgs, f_losses,
    \* user feed (user_ws.rs)
    u_pc, u_backoff, u_msgs, u_losses,
    u_frame,            \* the text frame last handed to handle_user_event
    u_current,          \* `current` of the MATCHED arm (user_ws.rs:109)
    \* strategy (trading.rs)
    s_pc, s_update, s_open, s_prev, s_path, s_emitted,
    \* executor (execution.rs)
    e_pc, e_cmd, e_res, e_merge,
    e_current_inventory, \* `current_inventory` of the OrderFilled arm (execution.rs:110)
    \* monitor (monitor.rs)
    mon_pc,
    \* exchange: receipts handed out so far
    next_oid,
    \* bookkeeping of what has been observed (not program state)
    ledger,             \* token -> REST snapshot + split/merge deltas + MATCHED fills
    h_open,             \* ids placed and neither cancelled nor filled since
    h_sweep,            \* -1 until main has sent its CancelAll; then the number of
                        \* cancel-alls the executor has yet to finish up to and
                        \* including that one
    h_tx,               \* transaction hashes the split/merge adapter has returned
    h_sent,             \* commands put on the command channel from outside the tasks
    h_resting           \* exchange: order id -> token of the orders resting on it

app_vars == <<my_open_orders, last_prices, inventory, last_mid_bucket, risk_paused,
              shutting_down>>
feed_vars == <<f_pc, f_backoff, f_out, f_msgs, f_losses>>
user_vars == <<u_pc, u_backoff, u_msgs, u_losses, u_frame, u_current>>
strat_vars == <<s_pc, s_update, s_open, s_prev, s_path, s_emitted>>
exec_vars == <<e_pc, e_cmd, e_res, e_merge, e_current_inventory>>
hist_vars == <<ledger, h_open, h_sweep, h_tx, h_sent, h_resting>>
vars == <<disk, app_vars, mutex, market_q, cmd_q, m_pc, feed_vars, user_vars,
          strat_vars, exec_vars, mon_pc, next_oid, hist_vars>>

Tokens == {YES, NO}

InitWith(snapshots) ==
    /\ disk \in snapshots
    /\ my_open_orders = EmptyMap
    /\ last_prices = EmptyMap
    /\ inventory = EmptyMap
    /\ last_mid_bucket = EmptyMap
    /\ risk_paused = FALSE
    /\ shutting_down = FALSE
    /\ mutex = "free"
    /\ market_q = <<>>
    /\ cmd_q = <<>>
    /\ m_pc = "load"
    /\ f_pc = "top" /\ f_backoff = 1 /\ f_out = <<>> /\ f_msgs = 0 /\ f_losses = 0
    /\ u_pc = "top" /\ u_backoff = 1 /\ u_msgs = 0 /\ u_losses = 0
    /\ u_frame = NoFrame /\ u_current = 0
    /\ s_pc = "recv" /\ s_update = NoUpdate /\ s_open = 0 /\ s_prev = NoBucket
    /\ s_path = "idle" /\ s_emitted = <<>>
    /\ e_pc = "recv" /\ e_cmd = NoCmd /\ e_res = NoId /\ e_merge = 0
    /\ e_current_inventory = 0
    /\ mon_pc = "tick"
    /\ next_oid = 1
    /\ ledger = [t \in Tokens |-> 0]
    /\ h_open = {}
    /\ h_sweep = -1
    /\ h_tx = 0
    /\ h_sent = 0
    /\ h_resting = EmptyMap

-----------------------------------------------------------------------------
(* Channels *)

\* tasks are spawned once main has built the state (main.rs:247-306)
Spawned == m_pc \in {"wait", "cancel", "shutdown", "join"}
\* main has dropped its market_tx and cmd_tx (main.rs:325-326)
MainDropped == m_pc \in {"join", "done"}
\* the receiver of the command channel lives as long as the executor
CmdOpen == e_pc # "done"
\* mpsc::Sender::send completes: there is room, or the receiver is gone (Err)
CmdCanSend == ~CmdOpen \/ Len(cmd_q) < CommandChannelCap
CmdAfterSend(cmd) == IF CmdOpen THEN Append(cmd_q, cmd) ELSE cmd_q
\* the receiver of the market channel lives as long as the strategy
MarketOpen == s_pc # "done"
MarketCanSend == ~MarketOpen \/ Len(market_q) < MarketChannelCap

-----------------------------------------------------------------------------
(* main (main.rs:134-333) *)

\* a startup that keeps the flags of the snapshot
MainLoadKeepsFlags ==
    /\ m_pc = "load"
    /\ LET st == load_state(disk) IN
        /\ my_open_orders' = st.my_open_orders
        /\ last_prices' = st.last_prices
        /\ last_mid_bucket' = st.last_mid_bucket
        /\ shutting_down' = st.shutting_down
        /\ risk_paused' = st.risk_paused
        /\ inventory' = IF YES \in DOMAIN st.inventory THEN st.inventory
                        ELSE MapInsert(st.inventory, YES, 0)
    /\ m_pc' = "fetch"
    /\ UNCHANGED <<disk, mutex, market_q, cmd_q, feed_vars, user_vars, strat_vars,
                   exec_vars, mon_pc, next_oid, hist_vars>>

\* main.rs:135-165: snapshot or default, flags normalised, inventory key
MainLoad ==
    /\ m_pc = "load"
    /\ LET st == load_state(disk) IN
        /\ my_open_orders' = st.my_open_orders
        /\ last_prices' = st.last_prices
        /\ last_mid_bucket' = st.last_mid_bucket
        /\ shutting_down' = FALSE
        /\ risk_paused' = FALSE
        /\ inventory' = IF YES \in DOMAIN st.inventory THEN st.inventory
                        ELSE MapInsert(st.inventory, YES, 0)
    /\ m_pc' = "fetch"
    /\ UNCHANGED <<disk, mutex, market_q, cmd_q, feed_vars, user_vars, strat_vars,
                   exec_vars, mon_pc, next_oid, hist_vars>>

\* main.rs:176-178: every reported position overwrites the inventory entry
ApplyPositions(inv, positions) ==
    [k \in (DOMAIN inv) \cup (DOMAIN positions) |->
        IF k \in DOMAIN positions THEN positions[k] ELSE inv[k]]

\* main.rs:173-184: the REST bootstrap; on Err the inventory stays as loaded
MainFetch(replies) ==
    /\ m_pc = "fetch"
    /\ \E r \in replies :
         inventory' = IF r.ok THEN ApplyPositions(inventory, r.positions) ELSE inventory
    /\ ledger' = [t \in Tokens |-> MapGetOr(inventory', t, 0)]
    /\ m_pc' = "split"
    /\ UNCHANGED <<disk, my_open_orders, last_prices, last_mid_bucket, risk_paused,
                   shutting_down, mutex, market_q, cmd_q, feed_vars, user_vars,
                   strat_vars, exec_vars, mon_pc, next_oid, h_open, h_sweep, h_tx, h_sent, h_resting>>

\* main.rs:217: what a successful Split does to the inventory map
SplitInventory(inv) == MapInsert(inv, YES, SPLIT_AMOUNT)

\* main.rs:203-226: the adapter mints SPLIT_AMOUNT of YES and of NO
MainSplit(outcomes) ==
    /\ m_pc = "split"
    /\ \E r \in outcomes :
         IF r = "ok"
         THEN /\ inventory' = SplitInventory(inventory)
              /\ ledger' = [t \in Tokens |-> ledger[t] + SPLIT_AMOUNT]
              /\ h_tx' = h_tx + 1
         ELSE UNCHANGED <<inventory, ledger, h_tx>>
    /\ m_pc' = "wait"
    /\ UNCHANGED <<disk, my_open_orders, last_prices, last_mid_bucket, risk_paused,
                   shutting_down, mutex, market_q, cmd_q, feed_vars, user_vars,
                   strat_vars, exec_vars, mon_pc, next_oid, h_open, h_sweep, h_sent, h_resting>>

\* main.rs:310-319: Ctrl-C; both flags are set under the mutex
CtrlC ==
    /\ m_pc = "wait"
    /\ mutex = "free"
    /\ shutting_down' = TRUE
    /\ risk_paused' = TRUE
    /\ disk' = save_state(disk, [my_open_orders |-> my_open_orders,
                                 last_prices |-> last_prices, inventory |-> inventory,
                                 last_mid_bucket |-> last_mid_bucket,
                                 risk_paused |-> TRUE, shutting_down |-> TRUE])
    /\ m_pc' = "cancel"
    /\ UNCHANGED <<my_open_orders, last_prices, inventory, last_mid_bucket, mutex,
                   market_q, cmd_q, feed_vars, user_vars, strat_vars, exec_vars,
                   mon_pc, next_oid, hist_vars>>

\* the cancel-alls ahead of a command sent now: those queued and the one the
\* executor is handling
PendingCancelAlls ==
    Len(SelectSeq(cmd_q, LAMBDA c : c.type = "CancelAll"))
    + (IF e_pc \in {"run", "apply"} /\ e_cmd.type = "CancelAll" THEN 1 ELSE 0)

\* main.rs:321
MainSendCancelAll ==
    /\ m_pc = "cancel"
    /\ CmdCanSend
    /\ cmd_q' = CmdAfterSend(CancelAll)
    /\ h_sweep' = PendingCancelAlls + 1
    /\ m_pc' = "shutdown"
    /\ UNCHANGED <<disk, app_vars, mutex, market_q, feed_vars, user_vars, strat_vars,
                   exec_vars, mon_pc, next_oid, ledger, h_open, h_tx, h_sent, h_resting>>

\* main.rs:322-326: Shutdown is sent, then both senders are dropped
MainSendShutdown ==
    /\ m_pc = "shutdown"
    /\ CmdCanSend
    /\ cmd_q' = CmdAfterSend(Shutdown)
    /\ m_pc' = "join"
    /\ UNCHANGED <<disk, app_vars, mutex, market_q, feed_vars, user_vars, strat_vars,
                   exec_vars, mon_pc, next_oid, hist_vars>>

\* main.rs:329-333: the four awaited handles (the user task is not awaited)
MainJoin ==
    /\ m_pc = "join"
    /\ f_pc = "done" /\ s_pc = "done" /\ e_pc = "done" /\ mon_pc = "done"
    /\ m_pc' = "done"
    /\ UNCHANGED <<disk, app_vars, mutex, market_q, cmd_q, feed_vars, user_vars,
                   strat_vars, exec_vars, mon_pc, next_oid, hist_vars>>

-----------------------------------------------------------------------------
(* strategy (trading.rs) *)

\* trading.rs:91-94
IsExtreme(u) ==
    \/ u.best_ask >= 980
    \/ u.best_ask <= 20
    \/ u.best_bid <= 20
    \/ u.best_bid >= 980

\* the (bid, ask) pairs among the model's inputs whose f64 product
\* ((bid + ask) / 2.0) * 100.0 lands just above a whole number, e.g.
\* (0.5 + 0.6) / 2 * 100 = 55.00000000000001
F64AboveWhole ==
    { <<400, 20>>, <<400, 80>>, <<400, 160>>, <<400, 180>>, <<400,
      200>>, <<400, 440>>, <<400, 460>>, <<400, 560>>, <<400, 700>>,
      <<400, 720>>, <<400, 740>>, <<400, 760>>, <<400, 780>>, <<400,
      800>>, <<500, 600>>, <<520, 600>>, <<540, 600>>, <<560, 600>> }

\* trading.rs:107,131: ceil(((bid + ask) / 2) * 100); bid + ask is in mills
MidBucket(u) ==
    CeilDiv(u.best_bid + u.best_ask, 20)
        + (IF <<u.best_bid, u.best_ask>> \in F64AboveWhole THEN 1 ELSE 0)

\* a gate that lets every update through
ShouldRequoteAlways(prev, bucket) == TRUE
\* trading.rs:137-140
ShouldRequote(prev, bucket) == IF prev = NoBucket THEN TRUE ELSE prev # bucket

\* the quantisation the comment of trading.rs:176 describes: floor for the bid
OurBidFloor(bb) == 10 * Max(FloorDiv(Max(bb * (100 - EDGE_PCT), 1000), 1000), 1)
\* trading.rs:173,177: ((bid * (1 - EDGE)).max(0.01) * 100).ceil() / 100, .max(0.01)
\* bb * (100 - EDGE_PCT) is the raw bid in 1/100000; the result is in mills
OurBid(bb) == 10 * Max(CeilDiv(Max(bb * (100 - EDGE_PCT), 1000), 1000), 1)

\* trading.rs:174,178: ((ask + EDGE * ask).min(0.99) * 100).floor() / 100, .min(0.99)
OurAsk(ba) == 10 * Min(FloorDiv(Min(ba * 100 + EDGE_PCT * ba, 99000), 1000), 99)

\* a strategy that cancels before every requote
CancelsAlways(open) == TRUE
\* a strategy that never sends CancelAll before a requote
CancelsNever(open) == FALSE
\* trading.rs:154: CancelAll goes out only when an order of the token is open
CancelsFirst(open) == open > 0

\* trading.rs:213: reached only with should_requote_price true
PlacesQuotes(requote, open) == requote \/ open = 0

\* trading.rs:216-224: the first Create
FirstCreate(u) == Create(MkOrder(NoId, NO, "Sell", 1000 - OurBid(u.best_bid), BASE_ORDER_SIZE))
\* trading.rs:228-234: the second Create
SecondCreate(u) == Create(MkOrder(NoId, YES, "Sell", OurAsk(u.best_ask), BASE_ORDER_SIZE))

\* trading.rs:71-77: the open orders of the configured token
OpenOrdersFor(orders, a) == {k \in DOMAIN orders : orders[k].asset_id = a}

\* trading.rs:12: recv() yields the next update
StratRecv ==
    /\ Spawned
    /\ s_pc = "recv"
    /\ market_q # <<>>
    /\ s_update' = Head(market_q)
    /\ market_q' = Tail(market_q)
    /\ s_open' = 0 /\ s_prev' = NoBucket /\ s_path' = "idle" /\ s_emitted' = <<>>
    /\ s_pc' = "chk"
    /\ UNCHANGED <<disk, app_vars, mutex, cmd_q, m_pc, feed_vars, user_vars, exec_vars,
                   mon_pc, next_oid, hist_vars>>

\* trading.rs:12: recv() yields None once every sender is gone and the queue is empty
StratClosed ==
    /\ Spawned
    /\ s_pc = "recv"
    /\ market_q = <<>>
    /\ MainDropped /\ f_pc = "done"
    /\ s_pc' = "done"
    /\ UNCHANGED <<disk, app_vars, mutex, market_q, cmd_q, m_pc, feed_vars, user_vars,
                   s_update, s_open, s_prev, s_path, s_emitted, exec_vars, mon_pc,
                   next_oid, hist_vars>>

\* trading.rs:13-15
StratCheckShutdown ==
    /\ s_pc = "chk"
    /\ mutex = "free"
    /\ s_pc' = IF shutting_down THEN "done" ELSE "rec"
    /\ UNCHANGED <<disk, app_vars, mutex, market_q, cmd_q, m_pc, feed_vars, user_vars,
                   s_update, s_open, s_prev, s_path, s_emitted, exec_vars, mon_pc,
                   next_oid, hist_vars>>

\* trading.rs:18-24
StratRecord ==
    /\ s_pc = "rec"
    /\ mutex = "free"
    /\ last_prices' = MapInsert(last_prices, s_update.asset_id,
                                <<s_update.best_bid, s_update.best_ask, s_update.ts>>)
    /\ s_pc' = "read"
    /\ UNCHANGED <<disk, my_open_orders, inventory, last_mid_bucket, risk_paused,
                   shutting_down, mutex, market_q, cmd_q, m_pc, feed_vars, user_vars,
                   s_update, s_open, s_prev, s_path, s_emitted, exec_vars, mon_pc,
                   next_oid, hist_vars>>

\* a strategy whose check looks at shutting_down alone
StratReadIgnoringPause ==
    /\ s_pc = "read"
    /\ mutex = "free"
    /\ IF shutting_down
       THEN /\ s_path' = "stopped"
            /\ s_pc' = "recv"
            /\ s_open' = s_open
       ELSE /\ s_open' = Cardinality(OpenOrdersFor(my_open_orders, YES))
            /\ s_path' = IF IsExtreme(s_update) THEN "extreme" ELSE "gate"
            /\ s_pc' = IF IsExtreme(s_update) THEN "pause" ELSE "bucket"
    /\ UNCHANGED <<disk, app_vars, mutex, market_q, cmd_q, m_pc, feed_vars, user_vars,
                   s_update, s_prev, s_emitted, exec_vars, mon_pc, next_oid, hist_vars>>

\* trading.rs:52-103: the flags and the open orders are read under the mutex;
\* the extreme-price test that follows reads only the update
StratRead ==
    /\ s_pc = "read"
    /\ mutex = "free"
    /\ IF risk_paused \/ shutting_down
       THEN /\ s_path' = "stopped"
            /\ s_pc' = "recv"
            /\ s_open' = s_open
       ELSE /\ s_open' = Cardinality(OpenOrdersFor(my_open_orders, YES))
            /\ s_path' = IF IsExtreme(s_update) THEN "extreme" ELSE "gate"
            /\ s_pc' = IF IsExtreme(s_update) THEN "pause" ELSE "bucket"
    /\ UNCHANGED <<disk, app_vars, mutex, market_q, cmd_q, m_pc, feed_vars, user_vars,
                   s_update, s_prev, s_emitted, exec_vars, mon_pc, next_oid, hist_vars>>

\* a guard that takes the mutex and leaves risk_paused as it is
StratPauseKeepsFlag ==
    /\ s_pc = "pause"
    /\ mutex = "free"
    /\ mutex' = "strategy"
    /\ s_pc' = "pause_send"
    /\ UNCHANGED <<disk, app_vars, market_q, cmd_q, m_pc, feed_vars, user_vars,
                   s_update, s_open, s_prev, s_path, s_emitted, exec_vars, mon_pc,
                   next_oid, hist_vars>>
\* trading.rs:99-100: the guard taken here is held until the return
StratPause ==
    /\ s_pc = "pause"
    /\ mutex = "free"
    /\ mutex' = "strategy"
    /\ risk_paused' = TRUE
    /\ s_pc' = "pause_send"
    /\ UNCHANGED <<disk, my_open_orders, last_prices, inventory, last_mid_bucket,
                   shutting_down, market_q, cmd_q, m_pc, feed_vars, user_vars,
                   s_update, s_open, s_prev, s_path, s_emitted, exec_vars, mon_pc,
                   next_oid, hist_vars>>

\* trading.rs:101-102: CancelAll is sent with the mutex held, then the return
StratPauseSend ==
    /\ s_pc = "pause_send"
    /\ CmdCanSend
    /\ cmd_q' = CmdAfterSend(CancelAll)
    /\ s_emitted' = Append(s_emitted, CancelAll)
    /\ mutex' = "free"
    /\ s_pc' = "recv"
    /\ UNCHANGED <<disk, app_vars, market_q, m_pc, feed_vars, user_vars, s_update,
                   s_open, s_prev, s_path, exec_vars, mon_pc, next_oid, hist_vars>>

\* trading.rs:131-169: the bucket is written, the previous one decides
StratBucket ==
    /\ s_pc = "bucket"
    /\ mutex = "free"
    /\ LET prev == MapGetOr(last_mid_bucket, s_update.asset_id, NoBucket)
           bucket == MidBucket(s_update)
       IN /\ s_prev' = prev
          /\ last_mid_bucket' = MapInsert(last_mid_bucket, s_update.asset_id, bucket)
          /\ IF ShouldRequote(prev, bucket)
             THEN /\ s_path' = "requote"
                  /\ s_pc' = IF CancelsFirst(s_open) THEN "cancel"
                             ELSE IF PlacesQuotes(TRUE, s_open) THEN "create1"
                             ELSE "recv"
             ELSE /\ s_path' = "same"
                  /\ s_pc' = "same"
    /\ UNCHANGED <<disk, my_open_orders, last_prices, inventory, risk_paused,
                   shutting_down, mutex, market_q, cmd_q, m_pc, feed_vars, user_vars,
                   s_update, s_open, s_emitted, exec_vars, mon_pc, next_oid, hist_vars>>

\* trading.rs:160-168: the bucket is read again for the log line, then the return
StratSame ==
    /\ s_pc = "same"
    /\ mutex = "free"
    /\ s_pc' = "recv"
    /\ UNCHANGED <<disk, app_vars, mutex, market_q, cmd_q, m_pc, feed_vars, user_vars,
                   s_update, s_open, s_prev, s_path, s_emitted, exec_vars, mon_pc,
                   next_oid, hist_vars>>

\* one cmd_tx.send(..).await of the strategy; its result is discarded
StratSend(at, cmd, to) ==
    /\ s_pc = at
    /\ CmdCanSend
    /\ cmd_q' = CmdAfterSend(cmd)
    /\ s_emitted' = Append(s_emitted, cmd)
    /\ s_pc' = to
    /\ UNCHANGED <<disk, app_vars, mutex, market_q, m_pc, feed_vars, user_vars,
                   s_update, s_open, s_prev, s_path, exec_vars, mon_pc, next_oid,
                   hist_vars>>

\* trading.rs:154-157
StratCancel ==
    StratSend("cancel", CancelAll, IF PlacesQuotes(TRUE, s_open) THEN "create1" ELSE "recv")
\* trading.rs:213-225
StratCreate1 == StratSend("create1", FirstCreate(s_update), "create2")
\* trading.rs:227-235
StratCreate2 == StratSend("create2", SecondCreate(s_update), "recv")

-----------------------------------------------------------------------------
(* executor (execution.rs) *)

\* execution.rs:129-137: fold(INFINITY, f64::min) over the values, .abs(),
\* .floor() as i64; quantities are in tenths, the result in whole shares
MinValue(inv) == CHOOSE v \in {inv[k] : k \in DOMAIN inv} :
                     \A k \in DOMAIN inv : v <= inv[k]
SharesToMerge(inv) == FloorDiv(Abs(MinValue(inv)), 10)

\* an executor that takes the newest command first
ExecRecvNewest ==
    /\ Spawned
    /\ e_pc = "recv"
    /\ cmd_q # <<>>
    /\ e_cmd' = cmd_q[Len(cmd_q)]
    /\ cmd_q' = SubSeq(cmd_q, 1, Len(cmd_q) - 1)
    /\ e_res' = NoId
    /\ e_pc' = "run"
    /\ UNCHANGED <<disk, app_vars, mutex, market_q, m_pc, feed_vars, user_vars,
                   strat_vars, e_merge, e_current_inventory, mon_pc, next_oid, hist_vars>>

\* an executor that takes the state mutex together with the command, the way
\* it takes the client mutex before each call
ExecRecvLocking ==
    /\ Spawned
    /\ e_pc = "recv"
    /\ cmd_q # <<>>
    /\ mutex = "free"
    /\ mutex' = "executor"
    /\ e_cmd' = Head(cmd_q)
    /\ cmd_q' = Tail(cmd_q)
    /\ e_res' = NoId
    /\ e_pc' = "run"
    /\ UNCHANGED <<disk, app_vars, market_q, m_pc, feed_vars, user_vars,
                   strat_vars, e_merge, e_current_inventory, mon_pc, next_oid, hist_vars>>

\* main.rs:261, types.rs:50-62: a holder of cmd_tx sends one of cmds
CommandSent(cmds) ==
    /\ Spawned
    /\ h_sent < MaxCommands
    /\ CmdCanSend
    /\ \E c \in cmds : cmd_q' = CmdAfterSend(c)
    /\ h_sent' = h_sent + 1
    /\ UNCHANGED <<disk, app_vars, mutex, market_q, m_pc, feed_vars, user_vars,
                   strat_vars, exec_vars, mon_pc, next_oid, ledger, h_open, h_sweep,
                   h_tx, h_resting>>

\* execution.rs:18: recv() yields the next command
ExecRecv ==
    /\ Spawned
    /\ e_pc = "recv"
    /\ cmd_q # <<>>
    /\ e_cmd' = Head(cmd_q)
    /\ cmd_q' = Tail(cmd_q)
    /\ e_res' = NoId
    /\ e_pc' = "run"
    /\ UNCHANGED <<disk, app_vars, mutex, market_q, m_pc, feed_vars, user_vars,
                   strat_vars, e_merge, e_current_inventory, mon_pc, next_oid, hist_vars>>

\* execution.rs:35-51: create_order and post_order succeed and the receipt
\* carries an order id
ExecCreatePosted ==
    /\ e_pc = "run"
    /\ e_cmd.type = "Create"
    /\ next_oid <= MaxOrders
    /\ e_res' = OidOf(next_oid)
    /\ next_oid' = next_oid + 1
    /\ h_resting' = MapInsert(h_resting, e_res', e_cmd.order.asset_id)
    /\ e_pc' = "apply"
    /\ UNCHANGED <<disk, app_vars, mutex, market_q, cmd_q, m_pc, feed_vars, user_vars,
                   strat_vars, e_cmd, e_merge, e_current_inventory, mon_pc, ledger,
                   h_open, h_sweep, h_tx, h_sent>>

\* execution.rs:61-72: signing fails, posting fails, or the receipt has no id
ExecCreateFailed ==
    /\ e_pc = "run"
    /\ e_cmd.type = "Create"
    /\ e_pc' = "recv"
    /\ UNCHANGED <<disk, app_vars, mutex, market_q, cmd_q, m_pc, feed_vars, user_vars,
                   strat_vars, e_cmd, e_res, e_merge, e_current_inventory, mon_pc, next_oid, hist_vars>>

\* an executor that stores the order as the command carried it
InsertAsSent(orders, id, order) == MapInsert(orders, id, order)
\* an executor that files the placed order under the id the command carried
InsertUnderCommandId(orders, id, order) == MapInsert(orders, order.id, order)
\* execution.rs:52-56: what a placement receipt does to the map
InsertPlaced(orders, id, order) == MapInsert(orders, id, [order EXCEPT !.id = id])

ExecCreateApply ==
    /\ e_pc = "apply"
    /\ e_cmd.type = "Create"
    /\ mutex = "free"
    /\ my_open_orders' = InsertPlaced(my_open_orders, e_res, e_cmd.order)
    /\ h_open' = h_open \cup {e_res}
    /\ e_pc' = "recv"
    /\ UNCHANGED <<disk, last_prices, inventory, last_mid_bucket, risk_paused,
                   shutting_down, mutex, market_q, cmd_q, m_pc, feed_vars, user_vars,
                   strat_vars, e_cmd, e_res, e_merge, e_current_inventory, mon_pc, next_oid, ledger,
                   h_sweep, h_tx, h_sent, h_resting>>

\* execution.rs:76-77,83-88: cancel(id) returns Ok, or Err, which is logged
ExecCancelCall ==
    /\ e_pc = "run"
    /\ e_cmd.type = "Cancel"
    /\ e_res' \in {"ok", "err"}
    /\ h_resting' = IF e_res' = "ok" THEN MapRemove(h_resting, e_cmd.id) ELSE h_resting
    /\ e_pc' = IF e_res' = "ok" THEN "apply" ELSE "recv"
    /\ UNCHANGED <<disk, app_vars, mutex, market_q, cmd_q, m_pc, feed_vars, user_vars,
                   strat_vars, e_cmd, e_merge, e_current_inventory, mon_pc, next_oid,
                   ledger, h_open, h_sweep, h_tx, h_sent>>

\* an executor that leaves the cancelled order in the map
RemoveNothing(orders, id) == orders
\* execution.rs:80: what a successful cancel does to the map
RemoveCancelled(orders, id) == MapRemove(orders, id)

\* execution.rs:78-82: the Ok arm, under the mutex
ExecCancelApply ==
    /\ e_pc = "apply"
    /\ e_cmd.type = "Cancel"
    /\ mutex = "free"
    /\ my_open_orders' = RemoveCancelled(my_open_orders, e_cmd.id)
    /\ h_open' = h_open \ {e_cmd.id}
    /\ e_pc' = "recv"
    /\ UNCHANGED <<disk, last_prices, inventory, last_mid_bucket, risk_paused,
                   shutting_down, mutex, market_q, cmd_q, m_pc, feed_vars, user_vars,
                   strat_vars, e_cmd, e_res, e_merge, e_current_inventory, mon_pc, next_oid, ledger,
                   h_sweep, h_tx, h_sent, h_resting>>

\* execution.rs:92-93: cancel_all() returns Ok or Err
ExecCancelAllCall ==
    /\ e_pc = "run"
    /\ e_cmd.type = "CancelAll"
    /\ e_res' \in {"ok", "err"}
    /\ h_resting' = IF e_res' = "ok" THEN EmptyMap ELSE h_resting
    /\ e_pc' = "apply"
    /\ UNCHANGED <<disk, app_vars, mutex, market_q, cmd_q, m_pc, feed_vars, user_vars,
                   strat_vars, e_cmd, e_merge, e_current_inventory, mon_pc, next_oid,
                   ledger, h_open, h_sweep, h_tx, h_sent>>

\* an executor that keeps the map when the exchange refuses the cancel-all
AfterCancelAllKeepsOnErr(orders, res) == IF res = "ok" THEN EmptyMap ELSE orders
\* execution.rs:94-104: what either arm does to the map
AfterCancelAll(orders, res) == EmptyMap

ExecCancelAllApply ==
    /\ e_pc = "apply"
    /\ e_cmd.type = "CancelAll"
    /\ mutex = "free"
    /\ my_open_orders' = AfterCancelAll(my_open_orders, e_res)
    /\ h_open' = {}
    /\ h_sweep' = IF h_sweep > 0 THEN h_sweep - 1 ELSE h_sweep
    /\ e_pc' = "recv"
    /\ UNCHANGED <<disk, last_prices, inventory, last_mid_bucket, risk_paused,
                   shutting_down, mutex, market_q, cmd_q, m_pc, feed_vars, user_vars,
                   strat_vars, e_cmd, e_res, e_merge, e_current_inventory, mon_pc, next_oid, ledger, h_tx,
                   h_sent, h_resting>>

\* execution.rs:127-138: the amount is computed under the mutex
ExecShutdownRead ==
    /\ e_pc = "run"
    /\ e_cmd.type = "Shutdown"
    /\ mutex = "free"
    /\ e_merge' = SharesToMerge(inventory)
    /\ e_pc' = IF e_merge' > 0 THEN "merge" ELSE "done"
    /\ UNCHANGED <<disk, app_vars, mutex, market_q, cmd_q, m_pc, feed_vars, user_vars,
                   strat_vars, e_cmd, e_res, e_current_inventory, mon_pc, next_oid, hist_vars>>

\* execution.rs:139-157: the adapter burns e_merge shares of YES and of NO
\* (Ok) or nothing (Err); then the loop is left
ExecMerge ==
    /\ e_pc = "merge"
    /\ \/ /\ e_res' = "ok"
          /\ ledger' = [t \in Tokens |-> ledger[t] - 10 * e_merge]
          /\ h_tx' = h_tx + 1
       \/ /\ e_res' = "err"
          /\ UNCHANGED <<ledger, h_tx>>
    /\ e_pc' = "done"
    /\ UNCHANGED <<disk, app_vars, mutex, market_q, cmd_q, m_pc, feed_vars, user_vars,
                   strat_vars, e_cmd, e_merge, e_current_inventory, mon_pc, next_oid, h_open, h_sweep, h_sent, h_resting>>

\* a guard that is given back as soon as it is taken
LockReleasedAtOnce(task) == "free"
\* user_ws.rs:108, execution.rs:109: `let mut s = state.lock().await`; the
\* guard lives until the end of the arm
LockedBy(task) == task

\* execution.rs:111-114
FillDelta(cmd) == IF cmd.side = "Buy" THEN cmd.size ELSE -cmd.size

\* execution.rs:109-110: the mutex is taken and the old quantity is read
ExecFilledRead ==
    /\ e_pc = "run"
    /\ e_cmd.type = "OrderFilled"
    /\ mutex = "free"
    /\ mutex' = LockedBy("executor")
    /\ e_current_inventory' = MapGetOr(inventory, e_cmd.token_id, 0)
    /\ e_pc' = "apply"
    /\ UNCHANGED <<disk, app_vars, market_q, cmd_q, m_pc, feed_vars, user_vars,
                   strat_vars, e_cmd, e_res, e_merge, mon_pc, next_oid, hist_vars>>

\* execution.rs:115-126: the new quantity is written, the order is removed
\* and the guard is dropped
ExecFilledWrite ==
    /\ e_pc = "apply"
    /\ e_cmd.type = "OrderFilled"
    /\ mutex = LockedBy("executor")
    /\ inventory' = MapInsert(inventory, e_cmd.token_id,
                              e_current_inventory + FillDelta(e_cmd))
    /\ my_open_orders' = MapRemove(my_open_orders, e_cmd.id)
    /\ ledger' = [ledger EXCEPT ![e_cmd.token_id] = @ + FillDelta(e_cmd)]
    /\ h_open' = h_open \ {e_cmd.id}
    /\ mutex' = "free"
    /\ e_pc' = "recv"
    /\ UNCHANGED <<disk, last_prices, last_mid_bucket, risk_paused, shutting_down,
                   market_q, cmd_q, m_pc, feed_vars, user_vars, strat_vars, e_cmd,
                   e_res, e_merge, e_current_inventory, mon_pc, next_oid, h_sweep,
                   h_tx, h_sent, h_resting>>

-----------------------------------------------------------------------------
(* monitor (monitor.rs:7-134) *)

\* every tick: leave on shutting_down, else print under the mutex
MonitorTick ==
    /\ Spawned
    /\ mon_pc = "tick"
    /\ mutex = "free"
    /\ mon_pc' = IF shutting_down THEN "done" ELSE "tick"
    /\ UNCHANGED <<disk, app_vars, mutex, market_q, cmd_q, m_pc, feed_vars, user_vars,
                   strat_vars, exec_vars, next_oid, hist_vars>>

-----------------------------------------------------------------------------
(* market feed (websocket.rs:12-85) *)

\* websocket.rs:83 / user_ws.rs:66
NextBackoff(b) == Min(b * 2, BACKOFF_CAP)

\* websocket.rs:24-47: the loop head leaves on shutting_down; else the socket
\* is connected and subscribed, and the delay is reset.  (The connect reads
\* and writes no shared state, so it is taken in the step of the check.)
FeedConnected ==
    /\ Spawned
    /\ f_pc = "top"
    /\ mutex = "free"
    /\ IF shutting_down
       THEN f_pc' = "done" /\ f_backoff' = f_backoff
       ELSE f_pc' = "next" /\ f_backoff' = 1
    /\ UNCHANGED <<disk, app_vars, mutex, market_q, cmd_q, m_pc, f_out, f_msgs,
                   f_losses, user_vars, strat_vars, exec_vars, mon_pc, next_oid,
                   hist_vars>>

\* websocket.rs:24-29,76: connect_async fails
FeedConnectErr ==
    /\ Spawned
    /\ f_pc = "top"
    /\ mutex = "free"
    /\ ~shutting_down
    /\ f_losses < MaxConnLosses
    /\ f_losses' = f_losses + 1
    /\ f_pc' = "after"
    /\ UNCHANGED <<disk, app_vars, mutex, market_q, cmd_q, m_pc, f_backoff, f_out,
                   f_msgs, user_vars, strat_vars, exec_vars, mon_pc, next_oid,
                   hist_vars>>

\* websocket.rs:39-43: the subscription frame cannot be sent: the task returns
FeedSubscribeErr ==
    /\ Spawned
    /\ f_pc = "top"
    /\ mutex = "free"
    /\ ~shutting_down
    /\ f_losses < MaxConnLosses
    /\ f_losses' = f_losses + 1
    /\ f_pc' = "done"
    /\ UNCHANGED <<disk, app_vars, mutex, market_q, cmd_q, m_pc, f_backoff, f_out,
                   f_msgs, user_vars, strat_vars, exec_vars, mon_pc, next_oid,
                   hist_vars>>

\* websocket.rs:48-62: a text frame arrives; shutting_down is looked at first
FeedText(frames, max) ==
    /\ f_pc = "next"
    /\ mutex = "free"
    /\ f_msgs < max
    /\ f_msgs' = f_msgs + 1
    /\ \E frame \in frames :
         IF shutting_down
         THEN f_pc' = "done" /\ f_out' = f_out
         ELSE /\ f_out' = ForTarget(parse_update(frame), YES)
              /\ f_pc' = IF f_out' = <<>> THEN "next" ELSE "fwd"
    /\ UNCHANGED <<disk, app_vars, mutex, market_q, cmd_q, m_pc, f_backoff, f_losses,
                   user_vars, strat_vars, exec_vars, mon_pc, next_oid, hist_vars>>

\* websocket.rs:57-59: one update is sent; Err (receiver gone) ends the task
FeedForward ==
    /\ f_pc = "fwd"
    /\ MarketCanSend
    /\ IF MarketOpen
       THEN /\ market_q' = Append(market_q, Head(f_out))
            /\ f_out' = Tail(f_out)
            /\ f_pc' = IF f_out' = <<>> THEN "next" ELSE "fwd"
       ELSE /\ market_q' = market_q
            /\ f_out' = f_out
            /\ f_pc' = "done"
    /\ UNCHANGED <<disk, app_vars, mutex, cmd_q, m_pc, f_backoff, f_msgs, f_losses,
                   user_vars, strat_vars, exec_vars, mon_pc, next_oid, hist_vars>>

\* websocket.rs:49-52,63-65,72: a ping (answered with a pong) or another frame
FeedPing ==
    /\ f_pc = "next"
    /\ mutex = "free"
    /\ f_pc' = IF shutting_down THEN "done" ELSE "next"
    /\ UNCHANGED <<disk, app_vars, mutex, market_q, cmd_q, m_pc, f_backoff, f_out,
                   f_msgs, f_losses, user_vars, strat_vars, exec_vars, mon_pc,
                   next_oid, hist_vars>>

\* websocket.rs:49-52,66-71: a close frame or a read error
FeedLost ==
    /\ f_pc = "next"
    /\ mutex = "free"
    /\ f_losses < MaxConnLosses
    /\ f_losses' = f_losses + 1
    /\ f_pc' = IF shutting_down THEN "done" ELSE "after"
    /\ UNCHANGED <<disk, app_vars, mutex, market_q, cmd_q, m_pc, f_backoff, f_out,
                   f_msgs, user_vars, strat_vars, exec_vars, mon_pc, next_oid,
                   hist_vars>>

\* websocket.rs:48: the stream ends (next() yields None)
FeedStreamEnd ==
    /\ f_pc = "next"
    /\ f_losses < MaxConnLosses
    /\ f_losses' = f_losses + 1
    /\ f_pc' = "after"
    /\ UNCHANGED <<disk, app_vars, mutex, market_q, cmd_q, m_pc, f_backoff, f_out,
                   f_msgs, user_vars, strat_vars, exec_vars, mon_pc, next_oid,
                   hist_vars>>

\* websocket.rs:79-83: leave on shutting_down, else sleep and double the delay
FeedBackoff ==
    /\ f_pc = "after"
    /\ mutex = "free"
    /\ IF shutting_down
       THEN f_pc' = "done" /\ f_backoff' = f_backoff
       ELSE f_pc' = "top" /\ f_backoff' = NextBackoff(f_backoff)
    /\ UNCHANGED <<disk, app_vars, mutex, market_q, cmd_q, m_pc, f_out, f_msgs,
                   f_losses, user_vars, strat_vars, exec_vars, mon_pc, next_oid,
                   hist_vars>>

-----------------------------------------------------------------------------
(* user feed (user_ws.rs) *)

\* user_ws.rs:76: serde_json::from_str::<UserWebSocketMessages> succeeds
UserParses(f) == f.tag \in {"TradeMessage", "OrderMessage"}

\* a handler that counts a trade of the configured token at every status
IsAnyTrade(f) ==
    /\ f.tag = "TradeMessage"
    /\ f.body.asset_id = YES
\* user_ws.rs:91-97: a trade of the configured token with status MATCHED
IsMatchedTrade(f) ==
    /\ f.tag = "TradeMessage"
    /\ f.body.asset_id = YES
    /\ f.body.status = "MATCHED"

\* a handler that does not look at the asset of an order event
IsPlacementOfAnyAsset(f) ==
    /\ f.tag = "OrderMessage"
    /\ f.body.msg_type \in {"PLACEMENT", "UPDATE"}
\* user_ws.rs:134-141: an order event of the configured token that inserts
IsPlacement(f) ==
    /\ f.tag = "OrderMessage"
    /\ f.body.asset_id = YES
    /\ f.body.msg_type \in {"PLACEMENT", "UPDATE"}

\* user_ws.rs:166-168
IsCancellation(f) ==
    /\ f.tag = "OrderMessage"
    /\ f.body.asset_id = YES
    /\ f.body.msg_type = "CANCELLATION"

\* user_ws.rs:98,116,155,156: an unwrap() of a failed parse
UserPanics(f) ==
    \/ IsMatchedTrade(f) /\ (~ParseOk(f.body.size) \/ ~ParseOk(f.body.timestamp))
    \/ IsPlacement(f) /\ (~ParseOk(f.body.price) \/ ~ParseOk(f.body.original_size))

\* user_ws.rs:110-113
TradeDelta(f) == IF SideOf(f.body.side) = "Buy" THEN ParseVal(f.body.size)
                 ELSE -ParseVal(f.body.size)

\* user_ws.rs:98-114: the inventory after the event; the size is parsed
\* before the write, the timestamp after it
UserInventory(inv, f) ==
    IF IsMatchedTrade(f) /\ ParseOk(f.body.size)
    THEN MapInsert(inv, f.body.asset_id, inv[f.body.asset_id] + TradeDelta(f))
    ELSE inv

\* user_ws.rs:143-158: entry(id).or_insert(order)
OrInsert(orders, id, order) == IF id \in DOMAIN orders THEN orders ELSE MapInsert(orders, id, order)

\* a handler whose CANCELLATION drops every entry
UserOrdersClearing(orders, f) ==
    IF IsPlacement(f) /\ ~UserPanics(f)
    THEN OrInsert(orders, f.body.id,
                  MkOrder(f.body.id, f.body.asset_id, SideOf(f.body.side),
                          ParseVal(f.body.price), ParseVal(f.body.original_size)))
    ELSE IF IsCancellation(f) THEN EmptyMap
    ELSE orders
\* user_ws.rs:139-170: the open orders after the event
UserOrders(orders, f) ==
    IF IsPlacement(f) /\ ~UserPanics(f)
    THEN OrInsert(orders, f.body.id,
                  MkOrder(f.body.id, f.body.asset_id, SideOf(f.body.side),
                          ParseVal(f.body.price), ParseVal(f.body.original_size)))
    ELSE IF IsCancellation(f) THEN MapRemove(orders, f.body.id)
    ELSE orders

\* user_ws.rs:91-97: the trades the ledger counts: a decoded MATCHED trade of
\* a token of the pair whose size is a number
CountsAsTrade(f) ==
    /\ f.tag = "TradeMessage"
    /\ f.body.asset_id \in Tokens
    /\ f.body.status = "MATCHED"
    /\ ParseOk(f.body.size)

\* user_ws.rs:139-158: the placements the history counts: a decoded PLACEMENT
\* event of the configured token that the handler survives
CountsAsPlacement(f) ==
    /\ IsPlacement(f)
    /\ f.body.msg_type = "PLACEMENT"
    /\ ~UserPanics(f)

\* user_ws.rs:20-40: the loop head leaves on shutting_down; else the socket is
\* connected, the auth frame is sent and the delay is reset
UserConnected ==
    /\ Spawned
    /\ u_pc = "top"
    /\ mutex = "free"
    /\ IF shutting_down
       THEN u_pc' = "done" /\ u_backoff' = u_backoff
       ELSE u_pc' = "next" /\ u_backoff' = 1
    /\ UNCHANGED <<disk, app_vars, mutex, market_q, cmd_q, m_pc, feed_vars, u_msgs,
                   u_losses, strat_vars, exec_vars, mon_pc, next_oid, hist_vars, u_frame, u_current>>

\* user_ws.rs:20-26,59: connect_async fails
UserConnectErr ==
    /\ Spawned
    /\ u_pc = "top"
    /\ mutex = "free"
    /\ ~shutting_down
    /\ u_losses < MaxConnLosses
    /\ u_losses' = u_losses + 1
    /\ u_pc' = "after"
    /\ UNCHANGED <<disk, app_vars, mutex, market_q, cmd_q, m_pc, feed_vars, u_backoff,
                   u_msgs, strat_vars, exec_vars, mon_pc, next_oid, hist_vars, u_frame, u_current>>

\* user_ws.rs:41-49 with handle_user_event (70-173): a text frame arrives;
\* shutting_down is looked at first.  yes_token is never written after
\* startup, so the handler's two critical sections are taken as one step.
UserText(frames, max) ==
    /\ Spawned
    /\ u_pc = "next"
    /\ mutex = "free"
    /\ u_msgs < max
    /\ u_msgs' = u_msgs + 1
    /\ \E f \in frames :
         IF shutting_down
         THEN /\ u_pc' = "done"
              /\ UNCHANGED <<inventory, my_open_orders, hist_vars, u_frame, u_current>>
         ELSE /\ u_frame' = f
              /\ u_current' = u_current
              /\ inventory' = UserInventory(inventory, f)
              /\ my_open_orders' = UserOrders(my_open_orders, f)
              /\ u_pc' = IF UserPanics(f) THEN "panic" ELSE "next"
              /\ ledger' = IF CountsAsTrade(f)
                           THEN [ledger EXCEPT ![f.body.asset_id] = @ + TradeDelta(f)]
                           ELSE ledger
              /\ h_open' = IF CountsAsPlacement(f) THEN h_open \cup {f.body.id}
                           ELSE IF IsCancellation(f) THEN h_open \ {f.body.id}
                           ELSE IF CountsAsTrade(f) THEN h_open \ {f.body.taker_order_id}
                           ELSE h_open
              /\ h_resting' = IF CountsAsTrade(f)
                              THEN MapRemove(h_resting, f.body.taker_order_id)
                              ELSE h_resting
              /\ UNCHANGED <<h_sweep, h_tx, h_sent>>
    /\ UNCHANGED <<disk, last_prices, last_mid_bucket, risk_paused, shutting_down,
                   mutex, market_q, cmd_q, m_pc, feed_vars, u_backoff, u_losses,
                   strat_vars, exec_vars, mon_pc, next_oid>>

\* user_ws.rs:41-49,76-109: a MATCHED trade of the configured token arrives
\* and its size parses; the mutex is taken and the old quantity is read
UserTradeRead(frames, max) ==
    /\ Spawned
    /\ u_pc = "next"
    /\ mutex = "free"
    /\ u_msgs < max
    /\ u_msgs' = u_msgs + 1
    /\ \E f \in {g \in frames : IsMatchedTrade(g) /\ ParseOk(g.body.size)} :
         IF shutting_down
         THEN /\ u_pc' = "done"
              /\ UNCHANGED <<mutex, u_frame, u_current>>
         ELSE /\ u_frame' = f
              /\ mutex' = LockedBy("user")
              /\ u_current' = inventory[f.body.asset_id]
              /\ u_pc' = "trade"
    /\ UNCHANGED <<disk, app_vars, market_q, cmd_q, m_pc, feed_vars, u_backoff,
                   u_losses, strat_vars, exec_vars, mon_pc, next_oid, hist_vars>>

\* user_ws.rs:110-124: the new quantity is written; the timestamp is parsed
\* after the write; the guard is dropped at the end of the arm
UserTradeWrite ==
    /\ u_pc = "trade"
    /\ mutex = LockedBy("user")
    /\ inventory' = MapInsert(inventory, u_frame.body.asset_id,
                              u_current + TradeDelta(u_frame))
    /\ ledger' = [ledger EXCEPT ![u_frame.body.asset_id] = @ + TradeDelta(u_frame)]
    /\ h_open' = h_open \ {u_frame.body.taker_order_id}
    /\ mutex' = "free"
    /\ u_pc' = IF UserPanics(u_frame) THEN "panic" ELSE "next"
    /\ UNCHANGED <<disk, my_open_orders, last_prices, last_mid_bucket, risk_paused,
                   shutting_down, market_q, cmd_q, m_pc, feed_vars, u_backoff, u_msgs,
                   u_losses, u_frame, u_current, strat_vars, exec_vars, mon_pc,
                   next_oid, h_sweep, h_tx, h_sent, h_resting>>

\* user_ws.rs:42-45,50-56: a ping (answered with a pong) or another frame
UserPing ==
    /\ Spawned
    /\ u_pc = "next"
    /\ mutex = "free"
    /\ u_pc' = IF shutting_down THEN "done" ELSE "next"
    /\ UNCHANGED <<disk, app_vars, mutex, market_q, cmd_q, m_pc, feed_vars, u_backoff,
                   u_msgs, u_losses, strat_vars, exec_vars, mon_pc, next_oid, hist_vars, u_frame, u_current>>

\* user_ws.rs:42-45,53-54: a close frame or a read error
UserLost ==
    /\ Spawned
    /\ u_pc = "next"
    /\ mutex = "free"
    /\ u_losses < MaxConnLosses
    /\ u_losses' = u_losses + 1
    /\ u_pc' = IF shutting_down THEN "done" ELSE "after"
    /\ UNCHANGED <<disk, app_vars, mutex, market_q, cmd_q, m_pc, feed_vars, u_backoff,
                   u_msgs, strat_vars, exec_vars, mon_pc, next_oid, hist_vars, u_frame, u_current>>

\* user_ws.rs:41: the stream ends (next() yields None)
UserStreamEnd ==
    /\ Spawned
    /\ u_pc = "next"
    /\ u_losses < MaxConnLosses
    /\ u_losses' = u_losses + 1
    /\ u_pc' = "after"
    /\ UNCHANGED <<disk, app_vars, mutex, market_q, cmd_q, m_pc, feed_vars, u_backoff,
                   u_msgs, strat_vars, exec_vars, mon_pc, next_oid, hist_vars, u_frame, u_current>>

\* user_ws.rs:62-66: leave on shutting_down, else sleep and double the delay
UserBackoff ==
    /\ Spawned
    /\ u_pc = "after"
    /\ mutex = "free"
    /\ IF shutting_down
       THEN u_pc' = "done" /\ u_backoff' = u_backoff
       ELSE u_pc' = "top" /\ u_backoff' = NextBackoff(u_backoff)
    /\ UNCHANGED <<disk, app_vars, mutex, market_q, cmd_q, m_pc, feed_vars, u_msgs,
                   u_losses, strat_vars, exec_vars, mon_pc, next_oid, hist_vars, u_frame, u_current>>

-----------------------------------------------------------------------------
(* Spec: the trading core.  Startup without a snapshot, both sockets        *)
(* connected and delivering text frames, strategy, executor, Ctrl-C and the *)
(* two commands main sends after it.                                        *)

\* updates: 0.40/0.60 (bucket 50), 0.401/0.599 (bucket 50), 0.41/0.62
\* (bucket 52), 0.99/0.995 (extreme)
CoreMarketFrames ==
    { Single(Book(YES, <<Num(390), Dot(400)>>, <<Num(610), Dot(600)>>, Num(1))),
      Single(Book(YES, <<Num(401)>>, <<Num(599)>>, Num(2))),
      Batch(<<PriceChangeMsg(<<Change(YES, Num(410), Num(620)),
                               Change(FOREIGN, Num(100), Num(900))>>, Num(3))>>),
      Single(Book(YES, <<Num(990)>>, <<Num(995)>>, Num(4))) }

\* a trade that fills the whole of order o2, a placement and a cancellation
CoreUserFrames ==
    { TradeFrame(Trade(YES, "MATCHED", "SELL", Num(BASE_ORDER_SIZE), Num(1), "o2")),
      OrderFrame(OrderEv(YES, "PLACEMENT", "o1", "SELL", Num(610), Num(5000))),
      OrderFrame(OrderEv(YES, "CANCELLATION", "o1", "SELL", Num(610), Num(5000))) }

Init == InitWith({NoSnapshot})

Next ==
    \/ MainLoad \/ MainFetch({RestOk(0)}) \/ MainSplit({"ok", "err"}) \/ CtrlC
    \/ MainSendCancelAll \/ MainSendShutdown
    \/ FeedConnected \/ FeedText(CoreMarketFrames, MaxMarketMsgs) \/ FeedForward
    \/ FeedPing
    \/ UserConnected \/ UserText(CoreUserFrames, MaxUserMsgs) \/ UserPing
    \/ StratRecv \/ StratClosed \/ StratCheckShutdown \/ StratRecord \/ StratRead
    \/ StratPause \/ StratPauseSend \/ StratBucket \/ StratSame
    \/ StratCancel \/ StratCreate1 \/ StratCreate2
    \/ ExecRecv \/ ExecCreatePosted \/ ExecCreateFailed \/ ExecCreateApply
    \/ ExecCancelAllCall \/ ExecCancelAllApply \/ ExecShutdownRead \/ ExecMerge

Spec == Init /\ [][Next]_vars

-----------------------------------------------------------------------------
(* LifecycleSpec: startup from every snapshot, REST reply and split         *)
(* outcome, the user feed with every frame of UserFrames, Ctrl-C, the       *)
(* executor's shutdown, the monitor and main's wait; the market socket      *)
(* delivers no text frame.                                                  *)

LifecycleInit == InitWith(Snapshots)

LifecycleNext ==
    \/ MainLoad \/ MainFetch(RestReplies) \/ MainSplit({"ok", "err"}) \/ CtrlC
    \/ MainSendCancelAll \/ MainSendShutdown \/ MainJoin
    \/ FeedConnected \/ FeedPing
    \/ UserConnected \/ UserText(UserFrames, MaxLifecycleUserMsgs) \/ UserPing
    \/ StratClosed
    \/ ExecRecv \/ ExecCancelAllCall \/ ExecCancelAllApply \/ ExecShutdownRead
    \/ ExecMerge
    \/ MonitorTick

LifecycleSpec == LifecycleInit /\ [][LifecycleNext]_vars

-----------------------------------------------------------------------------
(* ShutdownSpec: the lifecycle with fair scheduling.  Every step a task     *)
(* takes by itself is weakly fair: the tokio runtime polls a ready task,    *)
(* connect_async, the REST call, the adapter and the exchange calls return, *)
(* sleep and the monitor's interval elapse, and the mutex is handed to each *)
(* waiter in turn.  What the sockets deliver (a text frame, a ping, a close *)
(* or an error) and the operator's Ctrl-C come from outside and are not     *)
(* fair: a socket may stay silent.                                          *)

ShutdownNext ==
    \/ MainLoad \/ MainFetch(RestReplies) \/ MainSplit({"ok", "err"}) \/ CtrlC
    \/ MainSendCancelAll \/ MainSendShutdown \/ MainJoin
    \/ FeedConnected \/ FeedConnectErr \/ FeedPing \/ FeedLost \/ FeedBackoff
    \/ UserConnected \/ UserConnectErr \/ UserPing \/ UserLost \/ UserBackoff
    \/ StratClosed
    \/ ExecRecv \/ ExecCancelAllCall \/ ExecCancelAllApply \/ ExecShutdownRead
    \/ ExecMerge
    \/ MonitorTick

ShutdownFairness ==
    /\ WF_vars(MainLoad) /\ WF_vars(MainFetch(RestReplies))
    /\ WF_vars(MainSplit({"ok", "err"}))
    /\ WF_vars(MainSendCancelAll) /\ WF_vars(MainSendShutdown) /\ WF_vars(MainJoin)
    /\ WF_vars(FeedConnected \/ FeedConnectErr) /\ WF_vars(FeedBackoff)
    /\ WF_vars(UserConnected \/ UserConnectErr) /\ WF_vars(UserBackoff)
    /\ WF_vars(StratClosed)
    /\ WF_vars(ExecRecv) /\ WF_vars(ExecCancelAllCall) /\ WF_vars(ExecCancelAllApply)
    /\ WF_vars(ExecShutdownRead) /\ WF_vars(ExecMerge)
    /\ WF_vars(MonitorTick)

ShutdownSpec == LifecycleInit /\ [][ShutdownNext]_vars /\ ShutdownFairness

-----------------------------------------------------------------------------
(* ExecutorSpec: the executor alone, with the commands on its channel sent  *)
(* by the specification: the repository holds no sender of Cancel, so the   *)
(* handler is driven with every command a holder of cmd_tx can send.        *)

ExecutorCommands ==
    { Create(MkOrder(NoId, YES, "Sell", 610, BASE_ORDER_SIZE)),
      Create(MkOrder(NoId, NO, "Sell", 600, BASE_ORDER_SIZE)),
      Cancel("o1"), Cancel("o2"), CancelAll }

ExecutorNext ==
    \/ MainLoad \/ MainFetch({RestOk(0)}) \/ MainSplit({"ok"})
    \/ CommandSent(ExecutorCommands)
    \/ ExecRecv \/ ExecCreatePosted \/ ExecCreateFailed \/ ExecCreateApply
    \/ ExecCancelCall \/ ExecCancelApply
    \/ ExecCancelAllCall \/ ExecCancelAllApply

ExecutorSpec == Init /\ [][ExecutorNext]_vars

-----------------------------------------------------------------------------
(* FeedSpec: the market feed alone, with every frame of MarketFrames and    *)
(* with connection losses, until Ctrl-C.                                    *)

FeedNext ==
    \/ MainLoad \/ MainFetch({RestOk(0)}) \/ MainSplit({"ok"}) \/ CtrlC
    \/ FeedConnected \/ FeedConnectErr \/ FeedSubscribeErr
    \/ FeedText(MarketFrames, MaxMarketMsgs) \/ FeedForward \/ FeedPing
    \/ FeedLost \/ FeedStreamEnd \/ FeedBackoff

FeedSpec == Init /\ [][FeedNext]_vars

-----------------------------------------------------------------------------
(* QuoteSpec: the strategy on the first update of a run, for every best bid *)
(* and every best ask of the mill grid.                                     *)

\* the cheapest and the dearest price of the grid, in mills
GridLow == 1
GridHigh == 999
\* one book per best bid (against an ask of 0.60) and per best ask (against
\* a bid of 0.40), the book 0.41/0.62 and the narrow book 0.021/0.022
GridFrames ==
    { Single(Book(YES, <<Num(b)>>, <<Num(600)>>, Num(0))) : b \in GridLow..GridHigh }
    \cup { Single(Book(YES, <<Num(400)>>, <<Num(a)>>, Num(0))) : a \in GridLow..GridHigh }
    \cup { Single(Book(YES, <<Num(410)>>, <<Num(620)>>, Num(0))) }
    \cup { Single(Book(YES, <<Num(21)>>, <<Num(22)>>, Num(0))) }

QuoteNext ==
    \/ MainLoad \/ MainFetch({RestOk(0)}) \/ MainSplit({"err"})
    \/ FeedConnected \/ FeedText(GridFrames, 1) \/ FeedForward
    \/ StratRecv \/ StratCheckShutdown \/ StratRecord \/ StratRead
    \/ StratPause \/ StratPauseSend \/ StratBucket
    \/ StratCreate1 \/ StratCreate2
    \/ ExecRecv \/ ExecCreateFailed \/ ExecCancelAllCall \/ ExecCancelAllApply

QuoteSpec == Init /\ [][QuoteNext]_vars

-----------------------------------------------------------------------------
(* InventorySpec: the two writers of the inventory after startup, the       *)
(* MATCHED arm of the user feed and the OrderFilled arm of the executor,    *)
(* each as a read step and a write step.  The repository holds no sender of *)
(* OrderFilled, so the commands are sent by the specification.              *)

\* fills of 5, 3 and 2 tokens
FillCommands ==
    { OrderFilled("o1", YES, "Buy", 400, 50),
      OrderFilled("o2", YES, "Sell", 610, 30),
      OrderFilled("o1", NO, "Buy", 600, 20) }

\* trades of 10 and 7 tokens; the last one carries a timestamp that is no number
FillFrames ==
    { TradeFrame(Trade(YES, "MATCHED", "BUY", Num(100), Num(1), "o1")),
      TradeFrame(Trade(YES, "MATCHED", "SELL", Num(70), Num(2), "o2")),
      TradeFrame(Trade(YES, "MATCHED", "BUY", Num(100), BadStr, "o1")) }

InventoryNext ==
    \/ MainLoad \/ MainFetch({RestOk(0), RestOk(1000)}) \/ MainSplit({"err"})
    \/ UserConnected \/ UserTradeRead(FillFrames, MaxLifecycleUserMsgs) \/ UserTradeWrite
    \/ CommandSent(FillCommands)
    \/ ExecRecv \/ ExecFilledRead \/ ExecFilledWrite

InventorySpec == Init /\ [][InventoryNext]_vars

-----------------------------------------------------------------------------
(* properties *)

\* the strategy has come back from the handler with the outcome path
Handled(path) == s_pc = "recv" /\ s_path = path
\* the Create commands among the commands of a handler run, in order
Creates(cmds) == SelectSeq(cmds, LAMBDA c : c.type = "Create")
\* this step is a cmd_tx.send of a Create by the strategy
StratSendsCreate == s_pc \in {"create1", "create2"} /\ s_emitted' # s_emitted

\* C1: once the REST bootstrap is done, the inventory of every token the map
\* holds equals the REST quantity plus the split and merge deltas plus the
\* MATCHED buys minus the MATCHED sells seen so far.
C1_InventoryReconciles ==
    m_pc \notin {"load", "fetch"} =>
        \A t \in DOMAIN inventory \cap Tokens : inventory[t] = ledger[t]

\* C2: the keys of my_open_orders are exactly the ids placed so far minus
\* the ids cancelled and the ids whose fill was observed.
C2_OpenOrdersMatchHistory == DOMAIN my_open_orders = h_open

\* C3: the strategy sends no Create at a moment when risk_paused is true.
C3_NoCreateWhilePaused == [][StratSendsCreate => ~risk_paused]_vars

\* C4: every Create the strategy sends is sent while handling an update
\* whose bucket differs from the one recorded before it (or none was
\* recorded), or at a moment when no order of the token is open.
C4_CreateOnlyOnNewBucketOrNoOrder ==
    [][StratSendsCreate =>
          \/ s_prev = NoBucket
          \/ s_prev # MidBucket(s_update)
          \/ OpenOrdersFor(my_open_orders, YES) = {}]_vars

\* a Create went out for a changed bucket while an order of the token was open
C4_Witness ==
    /\ Creates(s_emitted) # <<>>
    /\ s_prev # NoBucket
    /\ s_prev # MidBucket(s_update)
    /\ s_open > 0

\* the quotes the two Create commands of a handler run carry, in mills
QuotedBid == 1000 - Creates(s_emitted)[1].order.price
QuotedAsk == Creates(s_emitted)[2].order.price

\* C5: on every update the strategy quotes on (bid and ask strictly between
\* 0.02 and 0.98) the quantized bid is at most the best bid, the quantized
\* ask at least the best ask, and both lie in [0.01, 0.99].
C5_QuotesOutsideBook ==
    (/\ Handled("requote")
     /\ Len(Creates(s_emitted)) = 2
     /\ s_update.best_bid > 20 /\ s_update.best_bid < 980
     /\ s_update.best_ask > 20 /\ s_update.best_ask < 980)
    => /\ QuotedBid <= s_update.best_bid
       /\ QuotedAsk >= s_update.best_ask
       /\ QuotedBid >= 10 /\ QuotedBid <= 990
       /\ QuotedAsk >= 10 /\ QuotedAsk <= 990

\* C6: every update on the market queue has 0 <= best_bid < best_ask <= 1.
C6_ForwardedUpdatesOrdered ==
    \A i \in 1..Len(market_q) :
        /\ 0 <= market_q[i].best_bid
        /\ market_q[i].best_bid < market_q[i].best_ask
        /\ market_q[i].best_ask <= 1000

\* the clean quote: the first update, 0.40 / 0.60, handled with zero
\* inventory and no open order
CleanQuoteCase ==
    /\ Handled("requote")
    /\ s_update.best_bid = 400 /\ s_update.best_ask = 600
    /\ s_prev = NoBucket
    /\ s_open = 0
    /\ MapGetOr(inventory, YES, 0) = 0

\* C7 as stated: the clean quote records bucket 50 and sends three commands,
\* CancelAll, a Create at 0.60, a Create at 0.61.
C7_CleanQuoteThreeCommands ==
    CleanQuoteCase =>
        /\ MapGetOr(last_mid_bucket, YES, NoBucket) = 50
        /\ Len(s_emitted) = 3
        /\ s_emitted[1] = CancelAll
        /\ s_emitted[2].type = "Create" /\ s_emitted[2].order.price = 600
        /\ s_emitted[3].type = "Create" /\ s_emitted[3].order.price = 610

\* C7: the clean quote records bucket 50 and sends exactly two commands, a
\* Create at 0.60 then a Create at 0.61; no CancelAll goes out, since no
\* order is open.
C7_CleanQuoteTwoCreates ==
    CleanQuoteCase =>
        /\ MapGetOr(last_mid_bucket, YES, NoBucket) = 50
        /\ Len(s_emitted) = 2
        /\ s_emitted[1].type = "Create" /\ s_emitted[1].order.price = 600
        /\ s_emitted[2].type = "Create" /\ s_emitted[2].order.price = 610

\* the clean quote has been handled
C7_Witness == CleanQuoteCase /\ f_msgs = 1

\* C8: an update past the guards is dropped without any command if and only
\* if its bucket is the recorded one and an order of the token is open; in
\* every other case the two Create commands go out.
C8_RequoteGate ==
    (s_pc = "recv" /\ s_path \in {"requote", "same"}) =>
        LET quiet == s_prev = MidBucket(s_update) /\ s_open > 0
        IN /\ (s_emitted = <<>>) <=> quiet
           /\ ~quiet => Len(Creates(s_emitted)) = 2

\* the least number of cents that is at least x, and the greatest that is
\* at most x, for x in 1/100000
CentsUp(x) == CHOOSE c \in 0..100 : 1000 * c >= x /\ 1000 * (c - 1) < x
CentsDown(x) == CHOOSE c \in 0..100 : 1000 * c <= x /\ 1000 * (c + 1) > x
\* max(0.01, ceil(max(0.01, best_bid * 0.98) * 100) / 100), in mills
StatedBid(bb) == 10 * Max(1, CentsUp(Max(1000, 98 * bb)))
\* min(0.99, floor(min(0.99, best_ask * 1.02) * 100) / 100), in mills
StatedAsk(ba) == 10 * Min(99, CentsDown(Min(99000, 102 * ba)))

C10_ExtremeGuard ==
    [][(s_path = "extreme" /\ s_pc # "recv") =>
          /\ last_mid_bucket' = last_mid_bucket
          /\ s_pc' = "recv" => (risk_paused' /\ s_emitted' = <<CancelAll>>)]_vars

\* the guard has fired after a bucket was recorded, without Ctrl-C
C10_Witness ==
    /\ Handled("extreme")
    /\ YES \in DOMAIN last_mid_bucket
    /\ risk_paused /\ ~shutting_down

\* this step hands a text frame to handle_user_event; u_frame' is the frame
UserHandles == u_msgs' # u_msgs /\ ~shutting_down

ExecReadsMergeAmount == e_pc = "run" /\ e_cmd.type = "Shutdown" /\ e_pc' # "run"

\* floor(min(|inventory[YES]|, |inventory[NO]|)) in whole shares
StatedMergeAmount(inv) == FloorDiv(Min(Abs(inv[YES]), Abs(inv[NO])), 10)

\* C12: when the executor handles Shutdown with both tokens in the inventory
\* map, the amount it hands to the adapter for the Merge is the floor of the
\* smaller of the two absolute quantities.
C12_MergeAmount ==
    [][(ExecReadsMergeAmount /\ Tokens \subseteq DOMAIN inventory) =>
           e_merge' = StatedMergeAmount(inventory)]_vars

\* the cancel-alls the executor finishes before it takes the i-th queued command
CancelAllsAhead(i) ==
    Len(SelectSeq(SubSeq(cmd_q, 1, i - 1), LAMBDA c : c.type = "CancelAll"))
    + (IF e_pc \in {"run", "apply"} /\ e_cmd.type = "CancelAll" THEN 1 ELSE 0)

\* the executor has taken the Shutdown command off the queue
ExecHasShutdown == e_cmd.type = "Shutdown"

\* C13: main sends CancelAll only with shutting_down set, Shutdown is on the
\* queue or with the executor only after main has sent its CancelAll, and the
\* executor has finished the cancel-all main sent before it takes Shutdown,
\* merges and leaves its loop.
C13_ShutdownOrdering ==
    /\ m_pc \in {"cancel", "shutdown", "join", "done"} => shutting_down
    /\ h_sweep >= 0 => shutting_down /\ m_pc \in {"shutdown", "join", "done"}
    /\ \A i \in 1..Len(cmd_q) :
           cmd_q[i].type = "Shutdown" =>
               /\ m_pc \in {"join", "done"}
               /\ h_sweep >= 0
               /\ h_sweep <= CancelAllsAhead(i)
    /\ ExecHasShutdown => h_sweep = 0
    /\ e_pc \in {"merge", "done"} => ExecHasShutdown

\* the executor has merged and left after a cancel-all of the strategy and
\* the one main sent
C13_Witness ==
    /\ e_pc = "done" /\ e_res = "ok" /\ e_merge > 0
    /\ h_sweep = 0
    /\ Handled("extreme")

\* the user feed has returned, or main has: its handle is not kept
\* (main.rs:297) and the runtime drops the task when main returns
UserFeedExited == u_pc = "done" \/ m_pc = "done"

\* every task has returned and main's wait on the handles is over
AllTasksExited ==
    /\ f_pc = "done" /\ UserFeedExited /\ s_pc = "done" /\ e_pc = "done"
    /\ mon_pc = "done" /\ m_pc = "done"

\* C14: under fair scheduling of the tasks, once Ctrl-C has set shutting_down
\* every task returns and main's wait ends, whether or not the sockets
\* deliver anything afterwards.
C14_ShutdownTerminates == shutting_down ~> AllTasksExited

\* the run started without a snapshot and with no position, no trade was
\* handled, the Split of SPLIT_AMOUNT succeeded and the executor has left
\* after a successful Merge of the same amount: the ledger is back at zero
SplitThenMergeFromZero ==
    /\ disk = NoSnapshot /\ u_msgs = 0
    /\ e_pc = "done" /\ e_res = "ok" /\ 10 * e_merge = SPLIT_AMOUNT
    /\ \A t \in Tokens : ledger[t] = 0

\* C15: from an all-zero inventory a successful Split(a) at startup and a
\* successful Merge(a) at shutdown leave the inventory map as it was before
\* the Split, and the adapter has returned one transaction hash per call.
C15_SplitMergeRoundTrip ==
    SplitThenMergeFromZero =>
        /\ inventory = MapInsert(EmptyMap, YES, 0)
        /\ h_tx = 2

\* this step handles a decoded PLACEMENT or UPDATE event of the configured
\* token whose price and original_size are numbers
UserHandlesPlacement ==
    /\ UserHandles
    /\ u_frame'.tag = "OrderMessage" /\ u_frame'.body.asset_id = YES
    /\ u_frame'.body.msg_type \in {"PLACEMENT", "UPDATE"}
    /\ ParseOk(u_frame'.body.price) /\ ParseOk(u_frame'.body.original_size)

\* C16: after a PLACEMENT or UPDATE event of the configured token the entry
\* under the event's id is present with the event's price and original_size,
\* whether the id was absent before or held another price or size.
C16_PlacementInsertsOrRefreshes ==
    [][UserHandlesPlacement =>
          /\ u_frame'.body.id \in DOMAIN my_open_orders'
          /\ my_open_orders'[u_frame'.body.id].price = u_frame'.body.price.val
          /\ my_open_orders'[u_frame'.body.id].size = u_frame'.body.original_size.val]_vars

\* this step handles a decoded CANCELLATION event of the configured token
UserHandlesCancellation ==
    /\ UserHandles
    /\ u_frame'.tag = "OrderMessage" /\ u_frame'.body.asset_id = YES
    /\ u_frame'.body.msg_type = "CANCELLATION"

IsIgnoredEvent(f) ==
    \/ f.tag = "garbage"
    \/ /\ f.tag \in {"TradeMessage", "OrderMessage"}
       /\ \/ f.body.asset_id # YES
          \/ f.tag = "TradeMessage" /\ f.body.status # "MATCHED"
          \/ /\ f.tag = "OrderMessage"
             /\ f.body.msg_type \notin {"PLACEMENT", "UPDATE", "CANCELLATION"}

\* C18: a user-feed event of another asset, or one that is neither a MATCHED
\* trade nor a PLACEMENT, UPDATE or CANCELLATION, leaves inventory,
\* my_open_orders, last_prices, last_mid_bucket and the flags as they are and
\* puts nothing on the command queue.
C18_OtherEventsIgnored ==
    [][(UserHandles /\ IsIgnoredEvent(u_frame')) =>
          UNCHANGED <<app_vars, cmd_q, market_q, disk>>]_vars

\* a placement of another asset was handled after the placement of o1: the
\* map holds o1 alone
C18_Witness ==
    /\ u_msgs = 2 /\ u_pc = "next"
    /\ u_frame.tag = "OrderMessage" /\ u_frame.body.asset_id = FOREIGN
    /\ DOMAIN my_open_orders = {"o1"}

\* the executor ends its handling of a Create in this step: with the map
\* write after a receipt that carries an id, or after a failure
ExecPlaces == e_cmd.type = "Create" /\ e_pc = "apply" /\ e_pc' # "apply"
ExecCreateFails == e_cmd.type = "Create" /\ e_pc = "run" /\ e_pc' = "recv"

\* C19: when signing and posting succeed and the receipt carries an order
\* id, the executor stores the order under that id with the id filled in and
\* leaves the other entries alone; when signing or posting fails or the
\* receipt has no id, my_open_orders and the command queue stay as they are
\* and the executor is back at its receive.
C19_CreateOutcome ==
    [][/\ ExecPlaces =>
            /\ DOMAIN my_open_orders' = DOMAIN my_open_orders \cup {e_res}
            /\ my_open_orders'[e_res] = [e_cmd.order EXCEPT !.id = e_res]
            /\ \A k \in DOMAIN my_open_orders \ {e_res} :
                   my_open_orders'[k] = my_open_orders[k]
            /\ e_pc' = "recv"
       /\ ExecCreateFails =>
            /\ my_open_orders' = my_open_orders
            /\ cmd_q' = cmd_q
            /\ next_oid' = next_oid]_vars

\* both Creates of the first requote were handled: one is stored under o1,
\* the other failed and left nothing
C19_Witness ==
    /\ e_pc = "recv" /\ cmd_q = <<>> /\ e_cmd.type = "Create"
    /\ Handled("requote") /\ f_msgs = 1 /\ u_msgs = 0 /\ h_sweep = -1
    /\ next_oid = 2
    /\ DOMAIN my_open_orders = {"o1"} /\ my_open_orders["o1"].id = "o1"

\* the executor ends its handling of a Cancel in this step: with the map
\* write after the exchange accepted the cancel, or after it refused
ExecCancels == e_cmd.type = "Cancel" /\ e_pc = "apply" /\ e_pc' # "apply"
ExecCancelFails == e_cmd.type = "Cancel" /\ e_pc = "run" /\ e_res' = "err"

\* C20: when the exchange accepts the cancel of an order id, the executor
\* takes the entry under that id out of my_open_orders and leaves the others;
\* when the exchange refuses, my_open_orders stays as it is; either way the
\* executor is back at its receive.
C20_CancelOutcome ==
    [][/\ ExecCancels =>
            /\ DOMAIN my_open_orders' = DOMAIN my_open_orders \ {e_cmd.id}
            /\ \A k \in DOMAIN my_open_orders' : my_open_orders'[k] = my_open_orders[k]
            /\ e_pc' = "recv"
       /\ ExecCancelFails =>
            /\ my_open_orders' = my_open_orders
            /\ cmd_q' = cmd_q
            /\ e_pc' = "recv"]_vars

\* o1 and o2 were placed and the cancel of o1 was accepted: o2 is left
C20_Witness ==
    /\ e_cmd = Cancel("o1") /\ e_pc = "recv" /\ e_res = "ok"
    /\ next_oid = 3 /\ h_sent = 3
    /\ DOMAIN my_open_orders = {"o2"}

\* the executor ends its handling of a CancelAll in this step
ExecFinishesCancelAll == e_cmd.type = "CancelAll" /\ e_pc = "apply" /\ e_pc' # "apply"

\* C21: when the executor has finished a CancelAll, my_open_orders is empty,
\* whether the exchange accepted the cancel-all or refused it.
C21_CancelAllClears ==
    [][ExecFinishesCancelAll =>
          /\ e_res \in {"ok", "err"}
          /\ my_open_orders' = EmptyMap
          /\ e_pc' = "recv"]_vars

\* o1 and o2 were placed, no user event was handled, and a cancel-all the
\* exchange refused has been finished: the map is empty
C21_Witness ==
    /\ e_cmd.type = "CancelAll" /\ e_pc = "recv" /\ e_res = "err"
    /\ next_oid = 3 /\ u_msgs = 0
    /\ my_open_orders = EmptyMap

\* a user frame that is not JSON, or a decoded event one of whose number
\* strings (size, timestamp, price, original_size) is not a number
IsMalformedUserFrame(f) ==
    \/ f.tag = "garbage"
    \/ f.tag = "TradeMessage" /\ (~ParseOk(f.body.size) \/ ~ParseOk(f.body.timestamp))
    \/ f.tag = "OrderMessage" /\ (~ParseOk(f.body.price) \/ ~ParseOk(f.body.original_size))

\* C22 (user feed): a malformed message is dropped: no field of the shared
\* state changes, nothing is put on either queue, and the user feed goes on
\* to its next frame.
C22_MalformedDropped ==
    [][(UserHandles /\ IsMalformedUserFrame(u_frame')) =>
          /\ UNCHANGED <<app_vars, cmd_q, market_q>>
          /\ u_pc' = "next"]_vars

\* main builds the shared state and spawns the tasks in this step
MainSpawns == m_pc # "wait" /\ m_pc' = "wait"

\* C23: whatever state.json holds, and when it is absent, the shared state
\* the tasks are spawned with has shutting_down and risk_paused false.
C23_FlagsNormalised ==
    [][MainSpawns => ~shutting_down' /\ ~risk_paused']_vars

\* the tasks were spawned from a snapshot saved with both flags set
C23_Witness ==
    /\ m_pc = "wait" /\ u_pc = "top" /\ f_pc = "top"
    /\ disk.present /\ disk.state.shutting_down /\ disk.state.risk_paused
    /\ ~shutting_down /\ ~risk_paused

\* main saves the shared state on Ctrl-C in this step (main.rs:313-319)
MainSaves == m_pc = "wait" /\ m_pc' = "cancel"

\* C24: after the save at shutdown, load_state gives back the quantities of
\* the inventory, the open orders, the last prices and the last buckets that
\* were in memory at the save.
C24_SnapshotRoundTrip ==
    [][MainSaves =>
          LET st == load_state(disk') IN
          /\ \A t \in DOMAIN inventory : MapGetOr(st.inventory, t, 0) = inventory[t]
          /\ st.my_open_orders = my_open_orders
          /\ st.last_prices = last_prices
          /\ st.last_mid_bucket = last_mid_bucket]_vars

\* the market connection fails or is lost in this step: connect error, the
\* subscription frame cannot be sent, close frame, read error, end of stream
FeedLosesConnection == f_losses' # f_losses

\* C25: while shutting_down is false, every failure or loss of the market
\* connection takes the feed to its backoff sleep (and from there to a new
\* attempt), and the feed task returns only on shutting_down or when the
\* strategy's receiver is gone, never because of the connection.
C25_FeedReconnects ==
    [][/\ (FeedLosesConnection /\ ~shutting_down) => f_pc' = "after"
       /\ (f_pc # "done" /\ f_pc' = "done") => (shutting_down \/ ~MarketOpen)]_vars

\* what the stated rule allows a step to do with a reconnect delay: keep it,
\* double it up to the cap after a failed attempt (the feed is at its sleep),
\* or set it back to 1 in a step that receives a message on the connection
DelayStepAllowed(pc, delay, delay2, msgs, msgs2) ==
    /\ delay2 \in 1..BACKOFF_CAP
    /\ \/ delay2 = delay
       \/ pc = "after" /\ delay2 = Min(2 * delay, BACKOFF_CAP)
       \/ msgs2 # msgs /\ delay2 = 1

\* C26: in both feeds the reconnect delay stays within 1..30 s, changes only
\* by doubling (capped at 30) after a failed attempt, and goes back to 1 only
\* in a step that receives a message on the connection.
C26_BackoffRule ==
    [][/\ DelayStepAllowed(f_pc, f_backoff, f_backoff', f_msgs, f_msgs')
       /\ DelayStepAllowed(u_pc, u_backoff, u_backoff', u_msgs, u_msgs')]_vars

\* the strategy has come back from a requote made with an order of the
\* asset open
RequoteWithOpenOrder == Handled("requote") /\ s_open > 0

\* C27: a requote made while an order of the asset is open sends exactly
\* CancelAll, the Create of the bid side (Sell NO at 1 - bid) and the Create
\* of the ask side (Sell YES at the ask), in this order.
C27_CancelBeforeCreates ==
    RequoteWithOpenOrder =>
        /\ Len(s_emitted) = 3
        /\ s_emitted[1] = CancelAll
        /\ s_emitted[2].type = "Create" /\ s_emitted[2].order.asset_id = NO
        /\ s_emitted[2].order.price = 1000 - StatedBid(s_update.best_bid)
        /\ s_emitted[3].type = "Create" /\ s_emitted[3].order.asset_id = YES
        /\ s_emitted[3].order.price = StatedAsk(s_update.best_ask)

\* a second update in another bucket was requoted with the YES quote of the
\* first one open
C27_Witness ==
    /\ RequoteWithOpenOrder /\ s_open = 1 /\ f_msgs = 2 /\ next_oid = 3
    /\ s_prev # NoBucket
    /\ Len(s_emitted) = 3

\* the executor is between two commands
ExecIdle == e_pc = "recv"

\* C28: the command queue changes only by a send appending one command at
\* its end or by the idle executor taking the command at its front; the
\* executor takes no command while it handles another.
C28_FifoOneAtATime ==
    [][/\ cmd_q' # cmd_q =>
            \/ /\ Len(cmd_q') = Len(cmd_q) + 1
               /\ SubSeq(cmd_q', 1, Len(cmd_q)) = cmd_q
               /\ UNCHANGED <<e_pc, e_cmd>>
            \/ /\ cmd_q # <<>>
               /\ cmd_q' = Tail(cmd_q)
               /\ ExecIdle /\ e_pc' = "run"
               /\ e_cmd' = Head(cmd_q)
       /\ e_cmd' # e_cmd => (ExecIdle /\ cmd_q # <<>> /\ e_cmd' = Head(cmd_q))
       /\ (~ExecIdle /\ e_pc' = "run") => UNCHANGED <<e_pc, e_cmd>>]_vars

\* the executor handles the strategy's first Create while the second Create
\* and, behind it, main's CancelAll wait in the queue
C28_Witness ==
    /\ e_pc = "run" /\ e_cmd.type = "Create" /\ e_cmd.order.asset_id = NO
    /\ Len(cmd_q) = 2
    /\ cmd_q[1].type = "Create" /\ cmd_q[1].order.asset_id = YES
    /\ cmd_q[2] = CancelAll
    /\ m_pc = "shutdown"

\* C29: when the executor has left its loop, the command queue holds no
\* command: Shutdown was the last command sent to it.
C29_ShutdownHandledLast == e_pc = "done" => cmd_q = <<>>

\* the strategy puts a command on the command queue in this step
StratEnqueues == s_emitted' # s_emitted /\ Len(cmd_q') > Len(cmd_q)

\* C30: once shutting_down is set the strategy puts no command on the
\* command queue, neither CancelAll nor Create.
C30_NoCommandAfterShutdownFlag == [][StratEnqueues => ~shutting_down]_vars

\* the value the shared map holds for a token (a missing key reads as 0)
Held(t) == MapGetOr(inventory, t, 0)

\* C31: the user feed's MATCHED arm and the executor's OrderFilled arm each
\* read and write the inventory inside one critical section, so no update is
\* lost: once the tasks run, the inventory of every token equals its value at
\* startup plus the deltas applied so far.
C31_NoLostUpdate == Spawned => \A t \in Tokens : Held(t) = ledger[t]

\* the user feed is between its read and its write of the configured token
\* while the executor has an OrderFilled of the same token in hand, after a
\* first fill has been applied
C31_Witness ==
    /\ u_pc = "trade" /\ mutex = "user"
    /\ e_pc = "run" /\ e_cmd.type = "OrderFilled" /\ e_cmd.token_id = YES
    /\ h_sent >= 2 /\ Held(YES) # u_current + TradeDelta(u_frame)
    /\ \E t \in Tokens : ledger[t] \notin {0, 1000}

\* the task is suspended on a network operation: the websocket connect, send
\* or receive of a feed, a REST call of the executor (post, cancel,
\* cancel-all) or the on-chain merge
OnNetwork(task) ==
    CASE task = "feed" -> f_pc \in {"top", "next"}
      [] task = "user" -> u_pc \in {"top", "next"}
      [] task = "executor" ->
            \/ e_pc = "run" /\ e_cmd.type \in {"Create", "Cancel", "CancelAll"}
            \/ e_pc = "merge"
      [] OTHER -> FALSE

\* C32: no task holds the shared-state mutex while it is suspended on a
\* network operation.
C32_NoLockAcrossNetwork == mutex # "free" => ~OnNetwork(mutex)

\* the strategy holds the mutex across its send of CancelAll while the
\* executor waits for the exchange to answer a Create
C32_Witness ==
    /\ mutex = "strategy" /\ s_pc = "pause_send"
    /\ OnNetwork("executor") /\ e_cmd.type = "Create"
    /\ OnNetwork("feed") /\ OnNetwork("user")

\* the Create commands on their way: queued, or in the executor's hands
CreatesInFlight ==
    {cmd_q[i] : i \in {j \in 1..Len(cmd_q) : cmd_q[j].type = "Create"}}
        \cup (IF e_cmd.type = "Create" THEN {e_cmd} ELSE {})

\* C33: every stored order carries an id, the key it is stored under (so the
\* id of a stored order never changes), and every order of a Create command
\* carries none.
C33_StoredIdIsKey ==
    /\ \A k \in DOMAIN my_open_orders : k # NoId /\ my_open_orders[k].id = k
    /\ \A c \in CreatesInFlight : c.order.id = NoId

\* the exchange has handed out two receipts, the user feed has handled a
\* PLACEMENT, the map holds order o1 of the configured token and a Create is
\* still queued
C33_Witness ==
    /\ next_oid = 3
    /\ IsPlacement(u_frame)
    /\ DOMAIN my_open_orders = {"o1"} /\ my_open_orders["o1"].asset_id = YES
    /\ \E c \in CreatesInFlight : c \in {cmd_q[i] : i \in 1..Len(cmd_q)}

\* the strategy is suspended in cmd_tx.send on a full queue with the guard
\* of the state mutex in its hands
StratBlockedWithLock == s_pc = "pause_send" /\ mutex = "strategy" /\ ~CmdCanSend
\* the executor needs the state mutex to finish the command it is handling
ExecNeedsLock == e_pc = "apply"

\* C34: before shutdown no state has a task waiting to enqueue on the full
\* command queue while it holds the state mutex the executor needs to finish
\* its current command.
C34_NoSendUnderLockDeadlock ==
    ~shutting_down => ~(StratBlockedWithLock /\ ExecNeedsLock)

\* C35: the two Creates sent for one update with both prices strictly
\* between 0.02 and 0.98 are not crossed: our_bid <= our_ask, and the NO-side
\* price plus the YES-side price is at least 1.
C35_QuotesNotCrossed ==
    (/\ Handled("requote")
     /\ Len(Creates(s_emitted)) = 2
     /\ s_update.best_bid > 20 /\ s_update.best_bid < 980
     /\ s_update.best_ask > 20 /\ s_update.best_ask < 980)
    => /\ QuotedBid <= QuotedAsk
       /\ Creates(s_emitted)[1].order.price + Creates(s_emitted)[2].order.price >= 1000

\* the orders of the bot resting on the exchange for a token
Resting(t) == {k \in DOMAIN h_resting : h_resting[k] = t}

\* C36: the exchange never holds more than one generation of the bot's
\* quotes: at most one resting order on the NO token and at most one on the
\* YES token.
C36_OneGenerationResting == \A t \in Tokens : Cardinality(Resting(t)) <= 1

\* the executor has finished the CancelAll that main sent after Ctrl-C
SweepDone == h_sweep = 0
\* the exchange accepts an order in this step
OrderPosted == DOMAIN h_resting' \ DOMAIN h_resting # {}

\* C37: once the executor has performed the CancelAll of the shutdown path,
\* no order is posted to the exchange any more (so none is resting when the
\* executor exits).
C37_NoPostAfterSweep == [][SweepDone => ~OrderPosted]_vars

\* C38: the amount the executor asks the adapter to merge at shutdown, in
\* whole shares, never exceeds what the bot holds of the YES token or of the
\* NO token at that moment.
C38_MergeWithinHoldings ==
    [][ExecReadsMergeAmount => \A t \in Tokens : 10 * e_merge' <= ledger[t]]_vars

\* C39: risk_paused never goes back to false, and once the extreme-price
\* guard has set it the strategy puts no command on the queue for a later
\* update: while the flag is set and no shutdown is under way, the only
\* command the strategy enqueues is the CancelAll of the guard itself.
C39_PauseIsFinal ==
    [][/\ risk_paused => risk_paused'
       /\ (StratEnqueues /\ risk_paused /\ ~shutting_down) => s_pc = "pause_send"]_vars

\* the guard has paused the strategy on an extreme update, and a later
\* update inside the band has been turned away at the check
C39_Witness ==
    /\ Handled("stopped") /\ ~IsExtreme(s_update)
    /\ risk_paused /\ ~shutting_down
    /\ s_emitted = <<>>

=============================================================================
